---- MODULE Spec2Model ----
(***************************************************************************)
(* Model of the free-gift threshold widget (assets/free-gift-threshold.js) *)
(* FreeGiftManager: one manager object on one page section, the external   *)
(* cart it reads and mutates through the storefront cart API, and every    *)
(* asynchronous invocation of its handlers that is awaiting a response.    *)
(*                                                                         *)
(* JavaScript runs each handler to its next await without interruption, so *)
(* one action is one such run: the receipt of a response together with     *)
(* everything the handler does synchronously after it.  POST /cart/add is  *)
(* handled by the cart server at some instant between its sending and the  *)
(* receipt of its response (ServerAnswers); GET /cart and POST /cart/change *)
(* return the cart as it is when their response is received, and the cart  *)
(* may change right after it.                                              *)
(***************************************************************************)
EXTENDS Integers, Sequences, FiniteSets, Bags, TLC

\* ------------------------------------------------------------------ bounds
\* handler invocations awaiting a response at the same time
MaxTasks == 2
\* clock ticks after page load
MaxTicks == 2
\* requests that fail (transport error or non-OK response)
MaxFailures == 1

\* ------------------------------------------------------- program constants
updateDebounceTime == 100

\* the clock: Date.now() at page load and the step it advances by
StartTime == 10 * updateDebounceTime
TickStep == updateDebounceTime \div 2
MaxTime == StartTime + MaxTicks * TickStep

\* section.dataset.threshold, parsed by the constructor (minor units)
threshold == 10000

\* totals the host page's cart can take through changes made outside the widget
Totals == {8000, 9000, 10500}

\* variant ids the selector offers
Variants == {1, 2}

DisplayStates == {"progress", "selector", "success"}

\* ------------------------------------------------------------ cart lines
\* this.selectedGift.title of the selection of variant v (data-title)
GiftTitle(v) == IF v = 1 THEN "Gift A" ELSE "Gift B"

\* this.selectedGift.price of the selection of variant v (data-price)
GiftPrice(v) == IF v = 1 THEN "1500" ELSE "2500"

\* properties of the line POSTed by addGiftToCart for the selection of
\* variant v
GiftProperties_Unflagged(v) ==
    ("_original_price" :> GiftPrice(v))
        @@ ("_threshold_required" :> ToString(threshold))
        @@ ("_disable_link" :> "true")

GiftProperties(v) ==
    ("_is_free_gift" :> "true")
        @@ ("_original_price" :> GiftPrice(v))
        @@ ("_threshold_required" :> ToString(threshold))
        @@ ("_disable_link" :> "true")

\* a line of merchandise the shopper added; it carries no properties
RegularLine == [key |-> 0, variant_id |-> 0, properties |-> <<>>]

GiftLine(v) == [key |-> v, variant_id |-> v, properties |-> GiftProperties(v)]

\* properties of the line POSTed by the legacy GiftThreshold.addSampleToCart
SampleLine ==
    [key |-> 3, variant_id |-> 3,
     properties |-> ("_is_free_sample" :> "true")]

\* item.properties && item.properties._is_free_sample === "true"
IsFreeSample(item) ==
    /\ "_is_free_sample" \in DOMAIN item.properties
    /\ item.properties["_is_free_sample"] = "true"

\* this.cartData === null
Null == [total_price |-> -1, items |-> <<>>]

\* item.properties && item.properties._is_free_gift === "true"
IsFreeGift(item) ==
    /\ "_is_free_gift" \in DOMAIN item.properties
    /\ item.properties["_is_free_gift"] = "true"

\* items.find(pred): index of the first complimentary line, 0 when none
FindGift(items) ==
    IF \E i \in 1..Len(items) : IsFreeGift(items[i])
    THEN CHOOSE i \in 1..Len(items) :
            /\ IsFreeGift(items[i])
            /\ \A j \in 1..(i - 1) : ~IsFreeGift(items[j])
    ELSE 0

HasGift(cd) == FindGift(cd.items) # 0

ThresholdMet(cd) == cd.total_price >= threshold

GiftLines(items) == {i \in 1..Len(items) : IsFreeGift(items[i])}

VARIABLES
    cart,            \* the cart held by the storefront (external)
    cartData,        \* this.cartData
    lastCartTotal,   \* this.lastCartTotal
    lastUpdateTime,  \* this.lastUpdateTime
    selectedGift,    \* this.selectedGift: 0 (null) or a variant id
    isProcessing,    \* this.isProcessing
    listening,       \* event listeners attached (init past its first await)
    display,         \* which state container has display:block ("none": none)
    loading,         \* section carries class gift-threshold-loading
    tasks,           \* bag of handler invocations awaiting a response
    now,             \* Date.now()
    failures,        \* requests that have failed so far
    windowStart,     \* when debouncedUpdate was last called and fetched
    ev,              \* what the last handler run did
    isValidating,    \* this.isValidating of a validator
    isRefreshing,    \* this.isRefreshing of GiftThresholdValidator
    notificationShown, \* this.notificationShown of GiftThresholdValidator
    lastKnownState,  \* this.lastKnownState.state of GiftThresholdValidator
    reload,          \* page reloads scheduled with setTimeout
    cartTotal,       \* this.cartTotal of GiftThreshold
    hasSample,       \* this.hasSample of GiftThreshold (undefined: FALSE)
    rows,            \* the rows of the cart the host page renders
    cachedCart,      \* this.cachedCart of CartGiftProtection
    lastProtectionRun, \* this.lastProtectionRun of CartGiftProtection
    instances        \* the FreeGiftManager instances constructed so far

\* fields of the validators; FreeGiftManager never touches them
validatorVars == <<isValidating, isRefreshing, notificationShown,
                   lastKnownState, reload, cartTotal, hasSample>>

\* the cart rows and the fields of CartGiftProtection
protectionVars == <<rows, cachedCart, lastProtectionRun>>

vars == <<cart, cartData, lastCartTotal, lastUpdateTime, selectedGift,
          isProcessing, listening, display, loading, tasks, now,
          failures, windowStart, ev, validatorVars, protectionVars,
          instances>>

\* ------------------------------------------------- handler invocations
\* An invocation suspended at an await: which request it sent (pc), whether
\* the server has answered it (st) and the id the request names (id: the
\* variant of cart/add, the line key of cart/change).
Task(pc, st, id) == [pc |-> pc, st |-> st, id |-> id]

Sent(pc, id) == Task(pc, "sent", id)

\* outcomes of a request: answered, or failed (transport error, non-OK)
Outcomes == {"ok", "fail"}

Pending == BagToSet(tasks)

Without(t) == tasks (-) SetToBag({t})

CanStart == BagCardinality(tasks) < MaxTasks

\* what one handler run did: the handler, the outcome of the cart fetch it
\* awaited, the POST it issued, the notification it showed, what updateUI
\* did, whether it started a cart fetch, and the amount updateProgress wrote
\* into the progress message (-1: it wrote none), the text of the error
\* notification of addGiftToCart's catch, and the source tag of the
\* cart-update event it published
Did(op, fetched, post, note, ui, fetch) ==
    [op |-> op, fetched |-> fetched, post |-> post, note |-> note,
     ui |-> ui, fetch |-> fetch, amount |-> -1, reason |-> <<>>,
     published |-> "none", clicked |-> 0]

Idle == Did("none", "none", "none", "none", "none", FALSE)

\* ------------------------------------------------------ the cart server
\* POST /cart/add: a line with the same variant and properties is merged
AddLine(items, v) ==
    IF \E i \in 1..Len(items) : items[i].key = GiftLine(v).key
    THEN items
    ELSE Append(items, GiftLine(v))

\* POST /cart/change {id: key, quantity: 0}
DropLine(items, k) == SelectSeq(items, LAMBDA l : l.key # k)

\* the server handles POST /cart/add
ServerAnswers(t) ==
    /\ t.pc = "addPost" /\ t.st = "sent"
    /\ cart' = [cart EXCEPT !.items = AddLine(@, t.id)]
    /\ tasks' = Without(t) (+) SetToBag({Task(t.pc, "ok", t.id)})
    /\ ev' = Idle
    /\ UNCHANGED <<cartData, lastCartTotal, lastUpdateTime, selectedGift,
                   isProcessing, listening, display, loading, now, failures, windowStart>>
    /\ UNCHANGED validatorVars
    /\ UNCHANGED <<protectionVars, instances>>

\* the ways POST /cart/add fails: a non-OK response whose body carries a
\* description, or a transport error
AddFailures == {"rejected", "error"}

\* POST /cart/add is rejected or meets a transport error: the cart is left
\* as it was
ServerFails(t, r) ==
    /\ t.pc = "addPost" /\ t.st = "sent"
    /\ failures < MaxFailures
    /\ failures' = failures + 1
    /\ tasks' = Without(t) (+) SetToBag({Task(t.pc, r, t.id)})
    /\ ev' = Idle
    /\ UNCHANGED <<cart, cartData, lastCartTotal, lastUpdateTime, selectedGift,
                   isProcessing, listening, display, loading, now, windowStart>>
    /\ UNCHANGED validatorVars
    /\ UNCHANGED <<protectionVars, instances>>

\* the shopper changes the merchandise in the cart through the host page
ExtSetTotal(p) ==
    /\ p # cart.total_price
    /\ cart' = [cart EXCEPT !.total_price = p]
    /\ ev' = Idle
    /\ UNCHANGED <<cartData, lastCartTotal, lastUpdateTime, selectedGift,
                   isProcessing, listening, display, loading, tasks, now, failures, windowStart>>
    /\ UNCHANGED validatorVars
    /\ UNCHANGED <<protectionVars, instances>>

Tick ==
    /\ now + TickStep <= MaxTime
    /\ now' = now + TickStep
    /\ ev' = Idle
    /\ UNCHANGED <<cart, cartData, lastCartTotal, lastUpdateTime, selectedGift,
                   isProcessing, listening, display, loading, tasks, failures, windowStart>>
    /\ UNCHANGED validatorVars
    /\ UNCHANGED <<protectionVars, instances>>

\* ------------------------------------------------------ FreeGiftManager
\* fetchCart: this.cartData after the awaited GET (a failure is swallowed
\* and leaves the cached snapshot in place)
FetchCart(r) == IF r = "ok" THEN cart ELSE cartData

\* fetchCart: this.lastCartTotal after the awaited GET
FetchTotal(r) == IF r = "ok" THEN cart.total_price ELSE lastCartTotal

\* a GET may fail while the failure budget lasts
CanFail(r) == r = "ok" \/ failures < MaxFailures

Failed(r) == IF r = "ok" THEN failures ELSE failures + 1

\* outcomes of a POST: answered OK, answered with a non-OK status, or a
\* transport error thrown by fetch
PostOutcomes == {"ok", "rejected", "error"}

\* a POST may fail while the failure budget lasts
PostCanFail(r) == r = "ok" \/ failures < MaxFailures

\* updateUI: has gift but threshold not met
NeedsRemoval_Never(cd) == FALSE

NeedsRemoval(cd) == HasGift(cd) /\ ~ThresholdMet(cd)

\* updateUI: the container shown after hiding all three
StateFor_ThresholdFirst(cd) ==
    IF ThresholdMet(cd) THEN "selector"
    ELSE IF HasGift(cd) THEN "success"
    ELSE "progress"

StateFor(cd) ==
    IF HasGift(cd) THEN "success"
    ELSE IF ThresholdMet(cd) THEN "selector"
    ELSE "progress"

\* what updateUI does on snapshot cd
UiOutcome(cd) ==
    IF cd = Null THEN "nodata"
    ELSE IF NeedsRemoval(cd) THEN "remove"
    ELSE "render"

\* updateProgress: the amount written into the progress message
UpdateProgress_Total(cd) == cd.total_price

UpdateProgress(cd) ==
    IF threshold - cd.total_price > 0 THEN threshold - cd.total_price ELSE 0

\* the handler run e with what its updateUI wrote for snapshot cd
Shown(e, cd) ==
    IF UiOutcome(cd) = "render" /\ StateFor(cd) = "progress"
    THEN [e EXCEPT !.amount = UpdateProgress(cd)]
    ELSE e

\* removeGift up to its await: the POST /cart/change it sends for the first
\* complimentary line of this.cartData (none when there is no such line)
RemoveGift_Unchecked(cd) == SetToBag({Sent("rmPost", 0)})

RemoveGift(cd) ==
    LET i == FindGift(cd.items)
    IN  IF i = 0 THEN EmptyBag
        ELSE SetToBag({Sent("rmPost", cd.items[i].key)})

\* updateUI on this.cartData = cd, the other invocations being rest
UpdateUI(cd, rest) ==
    CASE UiOutcome(cd) = "nodata" -> display' = display /\ tasks' = rest
      [] UiOutcome(cd) = "remove" ->
            display' = display /\ tasks' = rest (+) RemoveGift(cd)
      [] OTHER -> display' = StateFor(cd) /\ tasks' = rest

\* the POST updateUI issues through removeGift
UiPost(cd) == IF UiOutcome(cd) = "remove" THEN "change" ELSE "none"

\* class gift-threshold-loading after updateUI
UiLoading(cd) == IF UiOutcome(cd) = "remove" THEN TRUE ELSE loading

\* init, resumed after its fetchCart
InitDone(t, r) ==
    /\ t.pc = "initFetch"
    /\ CanFail(r)
    /\ failures' = Failed(r)
    /\ cartData' = FetchCart(r)
    /\ lastCartTotal' = FetchTotal(r)
    /\ listening' = TRUE
    /\ UpdateUI(cartData', Without(t))
    /\ loading' = UiLoading(cartData')
    /\ ev' = Shown(Did("init", r, UiPost(cartData'), "none",
                       UiOutcome(cartData'), FALSE), cartData')
    /\ UNCHANGED <<cart, lastUpdateTime, selectedGift, isProcessing, now, windowStart>>
    /\ UNCHANGED validatorVars
    /\ UNCHANGED <<protectionVars, instances>>

\* selectVariant / selectProductByRadio with a variant chosen
Select(v) ==
    /\ listening
    /\ selectedGift # v
    /\ selectedGift' = v
    /\ ev' = Idle
    /\ UNCHANGED <<cart, cartData, lastCartTotal, lastUpdateTime, isProcessing,
                   listening, display, loading, tasks, now, failures, windowStart>>
    /\ UNCHANGED validatorVars
    /\ UNCHANGED <<protectionVars, instances>>

\* selectVariant with the empty option
Deselect ==
    /\ listening
    /\ selectedGift # 0
    /\ selectedGift' = 0
    /\ ev' = Idle
    /\ UNCHANGED <<cart, cartData, lastCartTotal, lastUpdateTime, isProcessing,
                   listening, display, loading, tasks, now, failures, windowStart>>
    /\ UNCHANGED validatorVars
    /\ UNCHANGED <<protectionVars, instances>>

\* the guard of debouncedUpdate
Debounced_NoGuard == FALSE

Debounced == now - lastUpdateTime < updateDebounceTime

\* debouncedUpdate up to its await
DebouncedUpdate ==
    /\ listening
    /\ IF Debounced
       THEN /\ ev' = Did("debouncedUpdate", "none", "none", "none", "none", FALSE)
            /\ UNCHANGED <<lastUpdateTime, tasks, windowStart>>
       ELSE /\ CanStart
            /\ lastUpdateTime' = now
            /\ windowStart' = now
            /\ tasks' = tasks (+) SetToBag({Sent("updFetch", 0)})
            /\ ev' = Did("debouncedUpdate", "none", "none", "none", "none", TRUE)
    /\ UNCHANGED <<cart, cartData, lastCartTotal, selectedGift, isProcessing,
                   listening, display, loading, now, failures>>
    /\ UNCHANGED validatorVars
    /\ UNCHANGED <<protectionVars, instances>>

\* debouncedUpdate, resumed after its fetchCart
UpdateDone(t, r) ==
    /\ t.pc = "updFetch"
    /\ CanFail(r)
    /\ failures' = Failed(r)
    /\ cartData' = FetchCart(r)
    /\ lastCartTotal' = FetchTotal(r)
    /\ UpdateUI(cartData', Without(t))
    /\ loading' = UiLoading(cartData')
    /\ ev' = Shown(Did("update", r, UiPost(cartData'), "none",
                       UiOutcome(cartData'), FALSE), cartData')
    /\ UNCHANGED <<cart, lastUpdateTime, selectedGift, isProcessing, listening, now, windowStart>>
    /\ UNCHANGED validatorVars
    /\ UNCHANGED <<protectionVars, instances>>

\* handleCartUpdate: events this manager published itself are skipped
OwnSources_None == {}

OwnSources == {"free-gift-add", "free-gift-remove"}

Sources == OwnSources \cup {"cart-items"}

HandleCartUpdate(source) ==
    IF source \in OwnSources
    THEN /\ listening
         /\ ev' = Did("handleCartUpdate", "none", "none", "none", "none", FALSE)
         /\ UNCHANGED <<cart, cartData, lastCartTotal, lastUpdateTime,
                        selectedGift, isProcessing, listening, display,
                        loading, tasks, now, failures, windowStart,
                        validatorVars, protectionVars, instances>>
    ELSE DebouncedUpdate

\* addGiftToCart: the early return of its first line
AddDropped == isProcessing \/ selectedGift = 0

\* addGiftToCart up to its first await (click on .gift-add-btn); the
\* invocation is tagged with the selection held at the click, of which the
\* code keeps no copy
AddGiftToCart ==
    /\ listening
    /\ IF AddDropped
       THEN /\ ev' = Did("addGiftToCart", "none", "none", "none", "none", FALSE)
            /\ tasks' = tasks
       ELSE /\ CanStart
            /\ tasks' = tasks (+) SetToBag({Sent("addFetch", selectedGift)})
            /\ ev' = Did("addGiftToCart", "none", "none", "none", "none", TRUE)
    /\ UNCHANGED <<cart, cartData, lastCartTotal, lastUpdateTime, selectedGift,
                   isProcessing, listening, display, loading, now, failures, windowStart>>
    /\ UNCHANGED validatorVars
    /\ UNCHANGED <<protectionVars, instances>>

\* addGiftToCart: the security check on the threshold
BelowThreshold(cd) == cd.total_price < threshold

\* addGiftToCart: the check for an existing gift
ExistingGift_Skipped(cd) == FALSE

ExistingGift(cd) == FindGift(cd.items) # 0

\* addGiftToCart, resumed after its first fetchCart, up to POST /cart/add
AddChecked(t, r) ==
    /\ t.pc = "addFetch"
    /\ CanFail(r)
    /\ failures' = Failed(r)
    /\ cartData' = FetchCart(r)
    /\ lastCartTotal' = FetchTotal(r)
    /\ CASE cartData' = Null ->
              \* TypeError on this.cartData.total_price: the promise rejects
              /\ tasks' = Without(t)
              /\ ev' = Did("addChecked", r, "none", "none", "none", FALSE)
              /\ UNCHANGED <<isProcessing, display, loading>>
         [] cartData' # Null /\ BelowThreshold(cartData') ->
              /\ UpdateUI(cartData', Without(t))
              /\ loading' = UiLoading(cartData')
              /\ ev' = Shown(Did("addChecked", r, UiPost(cartData'), "error",
                                 UiOutcome(cartData'), FALSE), cartData')
              /\ UNCHANGED isProcessing
         [] cartData' # Null /\ ~BelowThreshold(cartData')
                /\ ExistingGift(cartData') ->
              /\ tasks' = Without(t)
              /\ ev' = Did("addChecked", r, "none", "warning", "none", FALSE)
              /\ UNCHANGED <<isProcessing, display, loading>>
         [] OTHER ->
              IF selectedGift = 0
              THEN \* TypeError on this.selectedGift.variantId inside try
                   /\ tasks' = Without(t)
                   /\ isProcessing' = FALSE
                   /\ ev' = [Did("addChecked", r, "none", "error", "none",
                                  FALSE) EXCEPT !.clicked = t.id]
                   /\ UNCHANGED <<display, loading>>
              ELSE /\ tasks' = Without(t) (+) SetToBag({Sent("addPost", selectedGift)})
                   /\ isProcessing' = TRUE
                   /\ ev' = [Did("addChecked", r, "add", "none", "none",
                                  FALSE) EXCEPT !.clicked = t.id]
                   /\ UNCHANGED <<display, loading>>
    /\ UNCHANGED <<cart, lastUpdateTime, selectedGift, listening, now, windowStart>>
    /\ UNCHANGED validatorVars
    /\ UNCHANGED <<protectionVars, instances>>

\* error.description of the body of a rejected POST /cart/add
ApiDescription == "You can't add more of this item to the cart"

\* error.message of the TypeError a failed fetch throws
TransportMessage == "Failed to fetch"

\* addGiftToCart: the text its catch block shows after POST /cart/add
\* failed in the way st
AddError_Generic(st) == <<"Cannot add gift: ", "Error adding gift">>

AddError(st) ==
    <<"Cannot add gift: ",
      IF st = "rejected" THEN ApiDescription ELSE TransportMessage>>

\* addGiftToCart, resumed after POST /cart/add
AddPosted(t) ==
    /\ t.pc = "addPost" /\ t.st # "sent"
    /\ IF t.st = "ok"
       THEN /\ tasks' = Without(t) (+) SetToBag({Sent("addRefresh", 0)})
            /\ ev' = Did("addPosted", "none", "none", "success", "none", TRUE)
            /\ UNCHANGED isProcessing
       ELSE /\ tasks' = Without(t)
            /\ isProcessing' = FALSE
            /\ ev' = [Did("addPosted", "none", "none", "error", "none", FALSE)
                        EXCEPT !.reason = AddError(t.st)]
    /\ UNCHANGED <<cart, cartData, lastCartTotal, lastUpdateTime, selectedGift,
                   listening, display, loading, now, failures, windowStart>>
    /\ UNCHANGED validatorVars
    /\ UNCHANGED <<protectionVars, instances>>

\* addGiftToCart, resumed after its second fetchCart: updateUI, publish
\* (the manager's own subscriber, handleCartUpdate, returns at once for this
\* source), setButtonLoading(button, false)
AddRefreshed(t, r) ==
    /\ t.pc = "addRefresh"
    /\ CanFail(r)
    /\ failures' = Failed(r)
    /\ cartData' = FetchCart(r)
    /\ lastCartTotal' = FetchTotal(r)
    /\ UpdateUI(cartData', Without(t))
    /\ loading' = UiLoading(cartData')
    /\ isProcessing' = FALSE
    /\ ev' = [Shown(Did("addRefreshed", r, UiPost(cartData'), "none",
                        UiOutcome(cartData'), FALSE), cartData')
                 EXCEPT !.published = "free-gift-add"]
    /\ UNCHANGED <<cart, lastUpdateTime, selectedGift, listening, now, windowStart>>
    /\ UNCHANGED validatorVars
    /\ UNCHANGED <<protectionVars, instances>>

\* removeGift, resumed after POST /cart/change with outcome r
RemoveDone(t, r) ==
    /\ t.pc = "rmPost"
    /\ CanFail(r)
    /\ failures' = Failed(r)
    /\ IF r = "ok"
       THEN /\ cart' = [cart EXCEPT !.items = DropLine(@, t.id)]
            /\ cartData' = cart'
            /\ lastCartTotal' = cart'.total_price
            /\ UpdateUI(cartData', Without(t))
            /\ ev' = [Shown(Did("removeDone", "none", UiPost(cartData'),
                                "warning", UiOutcome(cartData'), FALSE),
                            cartData')
                         EXCEPT !.published = "free-gift-remove"]
       ELSE /\ tasks' = Without(t)
            /\ ev' = Did("removeDone", "none", "none", "error", "none", FALSE)
            /\ UNCHANGED <<cart, cartData, lastCartTotal, display>>
    /\ loading' = FALSE
    /\ UNCHANGED <<lastUpdateTime, selectedGift, isProcessing, listening, now, windowStart>>
    /\ UNCHANGED validatorVars
    /\ UNCHANGED <<protectionVars, instances>>

\* ------------------------------------------------------- specification
Init ==
    /\ cart = [total_price |-> 8000, items |-> <<RegularLine>>]
    /\ cartData = Null
    /\ lastCartTotal = 0
    /\ lastUpdateTime = 0
    /\ selectedGift = 0
    /\ isProcessing = FALSE
    /\ listening = FALSE
    /\ display = "none"
    /\ loading = FALSE
    /\ tasks = SetToBag({Sent("initFetch", 0)})
    /\ now = StartTime
    /\ failures = 0
    /\ windowStart = 0
    /\ ev = Idle
    /\ isValidating = FALSE
    /\ isRefreshing = FALSE
    /\ notificationShown = FALSE
    /\ lastKnownState = "null"
    /\ reload = 0
    /\ cartTotal = 0
    /\ hasSample = FALSE
    /\ rows = <<>>
    /\ cachedCart = Null
    /\ lastProtectionRun = 0
    /\ instances = <<>>

Next ==
    \/ \E t \in Pending : ServerAnswers(t)
    \/ \E t \in Pending, r \in AddFailures : ServerFails(t, r)
    \/ \E p \in Totals : ExtSetTotal(p)
    \/ Tick
    \/ \E t \in Pending, r \in Outcomes : InitDone(t, r)
    \/ \E v \in Variants : Select(v)
    \/ Deselect
    \/ \E source \in Sources : HandleCartUpdate(source)
    \/ \E t \in Pending, r \in Outcomes : UpdateDone(t, r)
    \/ AddGiftToCart
    \/ \E t \in Pending, r \in Outcomes : AddChecked(t, r)
    \/ \E t \in Pending : AddPosted(t)
    \/ \E t \in Pending, r \in Outcomes : AddRefreshed(t, r)
    \/ \E t \in Pending, r \in Outcomes : RemoveDone(t, r)

Spec == Init /\ [][Next]_vars

\* ------------------------------------------- removeGift on any snapshot
\* lines a cart snapshot may hold next to its merchandise
MaxLines == 2

\* the item lists of a cart: line keys are unique
ItemLists ==
    {it \in UNION {[1..n -> {RegularLine, SampleLine}
                                \cup {GiftLine(v) : v \in Variants}] :
                      n \in 0..MaxLines} :
        \A i, j \in 1..Len(it) : i # j => it[i].key # it[j].key}

\* the snapshots fetchCart can leave in this.cartData
Snapshots == {[total_price |-> p, items |-> it] : p \in Totals, it \in ItemLists}

\* removeGift is called with this.cartData as it stands, up to its await
RemoveGiftCalled ==
    /\ CanStart
    /\ tasks' = tasks (+) RemoveGift(cartData)
    /\ loading' = (loading \/ RemoveGift(cartData) # EmptyBag)
    /\ ev' = Did("removeGift", "none",
                 IF RemoveGift(cartData) # EmptyBag THEN "change" ELSE "none",
                 "none", "none", FALSE)
    /\ UNCHANGED <<cart, cartData, lastCartTotal, lastUpdateTime, selectedGift,
                   isProcessing, listening, display, now, failures, windowStart>>
    /\ UNCHANGED validatorVars
    /\ UNCHANGED <<protectionVars, instances>>

\* the manager holds any snapshot, shows any state, and nothing is pending
RemoveGiftInit ==
    /\ cartData \in Snapshots
    /\ cart = cartData
    /\ lastCartTotal = cartData.total_price
    /\ lastUpdateTime = 0
    /\ selectedGift = 0
    /\ isProcessing = FALSE
    /\ listening = TRUE
    /\ display \in DisplayStates \cup {"none"}
    /\ loading \in BOOLEAN
    /\ tasks = EmptyBag
    /\ now = StartTime
    /\ failures = 0
    /\ windowStart = 0
    /\ ev = Idle
    /\ isValidating = FALSE
    /\ isRefreshing = FALSE
    /\ notificationShown = FALSE
    /\ lastKnownState = "null"
    /\ reload = 0
    /\ cartTotal = 0
    /\ hasSample = FALSE
    /\ rows = <<>>
    /\ cachedCart = Null
    /\ lastProtectionRun = 0
    /\ instances = <<>>

RemoveGiftNext ==
    \/ RemoveGiftCalled
    \/ \E t \in Pending, r \in Outcomes : RemoveDone(t, r)

RemoveGiftSpec == RemoveGiftInit /\ [][RemoveGiftNext]_vars

\* --------------------------------------------- updateUI on any snapshot
\* updateUI is called with this.cartData as it stands
UpdateUICalled ==
    /\ CanStart
    /\ UpdateUI(cartData, tasks)
    /\ loading' = UiLoading(cartData)
    /\ ev' = Shown(Did("updateUI", "none", UiPost(cartData), "none",
                       UiOutcome(cartData), FALSE), cartData)
    /\ UNCHANGED <<cart, cartData, lastCartTotal, lastUpdateTime, selectedGift,
                   isProcessing, listening, now, failures, windowStart>>
    /\ UNCHANGED validatorVars
    /\ UNCHANGED <<protectionVars, instances>>

UpdateUINext ==
    \/ UpdateUICalled
    \/ \E t \in Pending, r \in Outcomes : RemoveDone(t, r)

UpdateUISpec == RemoveGiftInit /\ [][UpdateUINext]_vars

\* --------------------------- legacy FreeGiftManager (gift-threshold.js)
\* The manager of assets/gift-threshold.js as far as it watches the cart:
\* init, the event-driven refresh (fetchCart + updateUI), the poll started
\* by monitorCartChanges and removeGift.  The complimentary lines it meets
\* were put into the cart during an earlier page view.  lastCartTotal is
\* the variable of that name local to monitorCartChanges.

\* updateUI of the legacy manager: the same decisions as the current one
LegacyUpdateUI(cd, rest) == UpdateUI(cd, rest)

\* let lastCartTotal = this.cartData?.total_price || 0
LegacyLastTotal(cd) == IF cd = Null THEN 0 ELSE cd.total_price

\* init, resumed after its fetchCart: listeners, monitorCartChanges, updateUI
LegacyInitDone(t, r) ==
    /\ t.pc = "legacyInit"
    /\ CanFail(r)
    /\ failures' = Failed(r)
    /\ cartData' = FetchCart(r)
    /\ lastCartTotal' = LegacyLastTotal(cartData')
    /\ listening' = TRUE
    /\ LegacyUpdateUI(cartData', Without(t))
    /\ loading' = UiLoading(cartData')
    /\ ev' = Shown(Did("init", r, UiPost(cartData'), "none",
                       UiOutcome(cartData'), FALSE), cartData')
    /\ UNCHANGED <<cart, lastUpdateTime, selectedGift, isProcessing, now,
                   windowStart>>
    /\ UNCHANGED validatorVars
    /\ UNCHANGED <<protectionVars, instances>>

\* a listener of monitorCartChanges fires: fetchCart up to its await
LegacyRefresh ==
    /\ listening
    /\ CanStart
    /\ tasks' = tasks (+) SetToBag({Sent("legacyFetch", 0)})
    /\ ev' = Did("refresh", "none", "none", "none", "none", TRUE)
    /\ UNCHANGED <<cart, cartData, lastCartTotal, lastUpdateTime, selectedGift,
                   isProcessing, listening, display, loading, now, failures,
                   windowStart>>
    /\ UNCHANGED validatorVars
    /\ UNCHANGED <<protectionVars, instances>>

\* the listener, resumed after fetchCart: updateUI
LegacyRefreshDone(t, r) ==
    /\ t.pc = "legacyFetch"
    /\ CanFail(r)
    /\ failures' = Failed(r)
    /\ cartData' = FetchCart(r)
    /\ LegacyUpdateUI(cartData', Without(t))
    /\ loading' = UiLoading(cartData')
    /\ ev' = Shown(Did("refreshed", r, UiPost(cartData'), "none",
                       UiOutcome(cartData'), FALSE), cartData')
    /\ UNCHANGED <<cart, lastCartTotal, lastUpdateTime, selectedGift,
                   isProcessing, listening, now, windowStart>>
    /\ UNCHANGED validatorVars
    /\ UNCHANGED <<protectionVars, instances>>

\* the poll of monitorCartChanges ticks: fetchCart up to its await
LegacyPoll ==
    /\ listening
    /\ CanStart
    /\ tasks' = tasks (+) SetToBag({Sent("pollFetch", 0)})
    /\ ev' = Did("pollTick", "none", "none", "none", "none", TRUE)
    /\ UNCHANGED <<cart, cartData, lastCartTotal, lastUpdateTime, selectedGift,
                   isProcessing, listening, display, loading, now, failures,
                   windowStart>>
    /\ UNCHANGED validatorVars
    /\ UNCHANGED <<protectionVars, instances>>

\* the poll compares the fetched total with the one it saw last
PollChanged(r) == r = "ok" /\ cart.total_price # lastCartTotal

\* the poll, resumed after fetchCart
LegacyPollDone(t, r) ==
    /\ t.pc = "pollFetch"
    /\ CanFail(r)
    /\ failures' = Failed(r)
    /\ cartData' = FetchCart(r)
    /\ IF PollChanged(r)
       THEN /\ lastCartTotal' = cart.total_price
            /\ LegacyUpdateUI(cartData', Without(t))
            /\ loading' = UiLoading(cartData')
            /\ ev' = Shown(Did("poll", r, UiPost(cartData'), "none",
                               UiOutcome(cartData'), FALSE), cartData')
       ELSE /\ tasks' = Without(t)
            /\ ev' = Did("poll", r, "none", "none", "none", FALSE)
            /\ UNCHANGED <<lastCartTotal, display, loading>>
    /\ UNCHANGED <<cart, lastUpdateTime, selectedGift, isProcessing,
                   listening, now, windowStart>>
    /\ UNCHANGED validatorVars
    /\ UNCHANGED <<protectionVars, instances>>

\* the names that occur in the body of a request of the manager: the JSON of
\* formData of addGiftToCart, and {id, quantity} of removeGift
BodyNames(post) ==
    IF post = "add"
    THEN {"items", "id", "quantity", "properties", "_is_free_gift",
          "_original_price", "_threshold_required"}
    ELSE {"id", "quantity"}

\* the fetch wrapper of monitorCartChanges: skip if it's our own request
OwnRequest(post) == "_is_free_gift" \in BodyNames(post)

\* the fetch wrapper of monitorCartChanges on a cart call that got the
\* response r: the fetchCart + updateUI it schedules 200 ms later (a call
\* whose fetch rejects throws out of the wrapper before that)
Intercepted(post, r) ==
    IF r \in {"ok", "rejected"} /\ ~OwnRequest(post)
    THEN SetToBag({Sent("legacyFetch", 0)})
    ELSE EmptyBag

\* removeGift of the legacy manager, resumed after POST /cart/change, the
\* response having passed the fetch wrapper first
LegacyRemoveDone(t, r) ==
    /\ t.pc = "rmPost"
    /\ PostCanFail(r)
    /\ failures' = Failed(r)
    /\ IF r = "ok"
       THEN /\ cart' = [cart EXCEPT !.items = DropLine(@, t.id)]
            /\ cartData' = cart'
            /\ LegacyUpdateUI(cartData', Without(t) (+) Intercepted("change", r))
            /\ ev' = [Shown(Did("removeDone", "none", UiPost(cartData'),
                                "warning", UiOutcome(cartData'),
                                Intercepted("change", r) # EmptyBag),
                            cartData')
                         EXCEPT !.published = "free-gift-remove"]
       ELSE /\ tasks' = Without(t) (+) Intercepted("change", r)
            /\ ev' = Did("removeDone", "none", "none", "error", "none",
                         Intercepted("change", r) # EmptyBag)
            /\ UNCHANGED <<cart, cartData, display>>
    /\ loading' = FALSE
    /\ UNCHANGED <<lastCartTotal, lastUpdateTime, selectedGift, isProcessing,
                   listening, now, windowStart>>
    /\ UNCHANGED validatorVars
    /\ UNCHANGED <<protectionVars, instances>>

LegacyInit ==
    /\ cart \in Snapshots
    /\ cartData = Null
    /\ lastCartTotal = 0
    /\ lastUpdateTime = 0
    /\ selectedGift = 0
    /\ isProcessing = FALSE
    /\ listening = FALSE
    /\ display = "none"
    /\ loading = FALSE
    /\ tasks = SetToBag({Sent("legacyInit", 0)})
    /\ now = StartTime
    /\ failures = 0
    /\ windowStart = 0
    /\ ev = Idle
    /\ isValidating = FALSE
    /\ isRefreshing = FALSE
    /\ notificationShown = FALSE
    /\ lastKnownState = "null"
    /\ reload = 0
    /\ cartTotal = 0
    /\ hasSample = FALSE
    /\ rows = <<>>
    /\ cachedCart = Null
    /\ lastProtectionRun = 0
    /\ instances = <<>>

LegacyNext ==
    \/ \E p \in Totals : ExtSetTotal(p)
    \/ \E t \in Pending, r \in Outcomes : LegacyInitDone(t, r)
    \/ LegacyRefresh
    \/ \E t \in Pending, r \in Outcomes : LegacyRefreshDone(t, r)
    \/ LegacyPoll
    \/ \E t \in Pending, r \in Outcomes : LegacyPollDone(t, r)
    \/ \E t \in Pending, r \in PostOutcomes : LegacyRemoveDone(t, r)

LegacySpec == LegacyInit /\ [][LegacyNext]_vars

\* ------------------ GiftThresholdValidator (free-gift-threshold.js)
\* The validator watches the sample line (_is_free_sample) of the cart of
\* the page section .gift-threshold.  Its triggers (the 1500 ms interval,
\* the timeouts set by init and by interceptCartChanges) call checkCart at
\* any time.  A scheduled reload replaces the page and with it the
\* validator.

\* page reloads that may be scheduled at the same time
MaxReloads == 2

\* items.find(pred): index of the first sample line, 0 when none
FindSample(items) ==
    IF \E i \in 1..Len(items) : IsFreeSample(items[i])
    THEN CHOOSE i \in 1..Len(items) :
            /\ IsFreeSample(items[i])
            /\ \A j \in 1..(i - 1) : ~IsFreeSample(items[j])
    ELSE 0

\* section.dataset.state as the page renders it
ValidatorStates == {"info", "selector", "success"}

\* checkCart: the state the section should be in
ShouldBeState(c) ==
    IF FindSample(c.items) # 0 THEN "success"
    ELSE IF c.total_price >= threshold THEN "selector"
    ELSE "info"

\* checkCart: the notification of a state change
StateChangeNote(from, to) ==
    IF notificationShown THEN "none"
    ELSE IF to = "selector" /\ from = "info" THEN "success"
    ELSE IF to = "info" /\ from = "selector" THEN "warning"
    ELSE "none"

\* checkCart: the early return of its first line (this.threshold is set)
CheckCartDropped_RefreshingOnly == isRefreshing

CheckCartDropped == isValidating \/ isRefreshing

\* checkCart up to its await
CheckCart ==
    /\ IF CheckCartDropped
       THEN /\ ev' = Did("checkCart", "none", "none", "none", "none", FALSE)
            /\ UNCHANGED <<tasks, isValidating>>
       ELSE /\ CanStart
            /\ isValidating' = TRUE
            /\ tasks' = tasks (+) SetToBag({Sent("checkFetch", 0)})
            /\ ev' = Did("checkCart", "none", "none", "none", "none", TRUE)
    /\ UNCHANGED <<cart, cartData, lastCartTotal, lastUpdateTime, selectedGift,
                   isProcessing, listening, display, loading, now, failures,
                   windowStart, isRefreshing, notificationShown,
                   lastKnownState, reload>>
    /\ UNCHANGED <<cartTotal, hasSample>>
    /\ UNCHANGED <<protectionVars, instances>>

\* checkCart, resumed after GET /cart.js
CheckCartDone(t, r) ==
    /\ t.pc = "checkFetch"
    /\ CanFail(r)
    /\ failures' = Failed(r)
    /\ IF r = "fail"
       THEN /\ isValidating' = FALSE
            /\ tasks' = Without(t)
            /\ ev' = Did("checked", r, "none", "none", "none", FALSE)
            /\ UNCHANGED <<isRefreshing, notificationShown, reload>>
       ELSE LET i == FindSample(cart.items)
                shouldBe == ShouldBeState(cart)
                needsStateChange == lastKnownState # shouldBe
            IN  CASE i # 0 /\ cart.total_price < threshold ->
                       IF ~isRefreshing
                       THEN /\ isRefreshing' = TRUE
                            /\ tasks' = Without(t) (+)
                                 SetToBag({Sent("samplePost", cart.items[i].key)})
                            /\ ev' = Did("checked", r, "change", "none",
                                         "none", FALSE)
                            /\ UNCHANGED <<isValidating, notificationShown,
                                           reload>>
                       ELSE /\ isValidating' = FALSE
                            /\ tasks' = Without(t)
                            /\ ev' = Did("checked", r, "none", "none", "none",
                                         FALSE)
                            /\ UNCHANGED <<isRefreshing, notificationShown,
                                           reload>>
                  [] ~(i # 0 /\ cart.total_price < threshold)
                        /\ needsStateChange /\ ~isRefreshing ->
                       /\ isRefreshing' = TRUE
                       /\ notificationShown' =
                            (notificationShown
                                \/ StateChangeNote(lastKnownState, shouldBe) # "none")
                       /\ reload' = reload + 1
                       /\ isValidating' = FALSE
                       /\ tasks' = Without(t)
                       /\ ev' = Did("checked", r, "none",
                                    StateChangeNote(lastKnownState, shouldBe),
                                    "reload", FALSE)
                  [] OTHER ->
                       /\ notificationShown' =
                            (notificationShown /\ needsStateChange)
                       /\ isValidating' = FALSE
                       /\ tasks' = Without(t)
                       /\ ev' = Did("checked", r, "none", "none", "dynamic",
                                    FALSE)
                       /\ UNCHANGED <<isRefreshing, reload>>
    /\ UNCHANGED <<cart, cartData, lastCartTotal, lastUpdateTime, selectedGift,
                   isProcessing, listening, display, loading, now,
                   windowStart, lastKnownState>>
    /\ UNCHANGED <<cartTotal, hasSample>>
    /\ UNCHANGED <<protectionVars, instances>>

\* removeSample, resumed after POST /cart/change.js, and the return of
\* checkCart that awaited it.  The fetch wrapper of interceptCartChanges
\* sees the response first and resets notificationShown.
RemoveSampleDone(t, r) ==
    /\ t.pc = "samplePost"
    /\ PostCanFail(r)
    /\ failures' = IF r = "ok" THEN failures ELSE failures + 1
    /\ CASE r = "ok" ->
              /\ cart' = [cart EXCEPT !.items = DropLine(@, t.id)]
              /\ notificationShown' = TRUE
              /\ reload' = reload + 1
              /\ ev' = Did("removeSample", r, "none", "warning", "reload", FALSE)
              /\ UNCHANGED isRefreshing
         [] r = "rejected" ->
              /\ notificationShown' = FALSE
              /\ ev' = Did("removeSample", r, "none", "none", "none", FALSE)
              /\ UNCHANGED <<cart, isRefreshing, reload>>
         [] OTHER ->
              /\ isRefreshing' = FALSE
              /\ ev' = Did("removeSample", r, "none", "none", "none", FALSE)
              /\ UNCHANGED <<cart, notificationShown, reload>>
    /\ isValidating' = FALSE
    /\ tasks' = Without(t)
    /\ UNCHANGED <<cartData, lastCartTotal, lastUpdateTime, selectedGift,
                   isProcessing, listening, display, loading, now,
                   windowStart, lastKnownState>>
    /\ UNCHANGED <<cartTotal, hasSample>>
    /\ UNCHANGED <<protectionVars, instances>>

\* the visibilitychange listener, the tab having become visible
VisibilityChange ==
    /\ reload < MaxReloads
    /\ isRefreshing' = FALSE
    /\ notificationShown' = FALSE
    /\ IF isValidating
       THEN /\ ev' = Did("visible", "none", "none", "none", "none", FALSE)
            /\ UNCHANGED <<tasks, isValidating>>
       ELSE /\ CanStart
            /\ isValidating' = TRUE
            /\ tasks' = tasks (+) SetToBag({Sent("checkFetch", 0)})
            /\ ev' = Did("visible", "none", "none", "none", "none", TRUE)
    /\ UNCHANGED <<cart, cartData, lastCartTotal, lastUpdateTime, selectedGift,
                   isProcessing, listening, display, loading, now, failures,
                   windowStart, lastKnownState, reload>>
    /\ UNCHANGED <<cartTotal, hasSample>>
    /\ UNCHANGED <<protectionVars, instances>>

\* the fetch wrapper and the change listener of interceptCartChanges see a
\* cart call or a quantity change of the host page
CartCallIntercepted ==
    /\ notificationShown
    /\ notificationShown' = FALSE
    /\ ev' = Idle
    /\ UNCHANGED <<cart, cartData, lastCartTotal, lastUpdateTime, selectedGift,
                   isProcessing, listening, display, loading, tasks, now,
                   failures, windowStart, isValidating, isRefreshing,
                   lastKnownState, reload>>
    /\ UNCHANGED <<cartTotal, hasSample>>
    /\ UNCHANGED <<protectionVars, instances>>

\* the shopper adds a sample through the selector of the section
SampleAdded ==
    /\ reload = 0
    /\ FindSample(cart.items) = 0
    /\ cart' = [cart EXCEPT !.items = Append(@, SampleLine)]
    /\ ev' = Idle
    /\ UNCHANGED <<cartData, lastCartTotal, lastUpdateTime, selectedGift,
                   isProcessing, listening, display, loading, tasks, now,
                   failures, windowStart>>
    /\ UNCHANGED validatorVars
    /\ UNCHANGED <<protectionVars, instances>>

\* a scheduled window.location.reload() fires: the page, its pending
\* handlers and timers go, and a new validator reads the rendered section
Reloaded(rendered) ==
    /\ reload > 0
    /\ reload' = 0
    /\ tasks' = EmptyBag
    /\ isValidating' = FALSE
    /\ isRefreshing' = FALSE
    /\ notificationShown' = FALSE
    /\ lastKnownState' = rendered
    /\ ev' = Did("reloaded", "none", "none", "none", "none", FALSE)
    /\ UNCHANGED <<cart, cartData, lastCartTotal, lastUpdateTime, selectedGift,
                   isProcessing, listening, display, loading, now, failures,
                   windowStart>>
    /\ UNCHANGED <<cartTotal, hasSample>>
    /\ UNCHANGED <<protectionVars, instances>>

ValidatorInit ==
    /\ cart \in {[total_price |-> p, items |-> it] :
                    p \in Totals,
                    it \in {<<RegularLine>>, <<RegularLine, SampleLine>>}}
    /\ cartData = Null
    /\ lastCartTotal = 0
    /\ lastUpdateTime = 0
    /\ selectedGift = 0
    /\ isProcessing = FALSE
    /\ listening = FALSE
    /\ display = "none"
    /\ loading = FALSE
    /\ tasks = EmptyBag
    /\ now = StartTime
    /\ failures = 0
    /\ windowStart = 0
    /\ ev = Idle
    /\ isValidating = FALSE
    /\ isRefreshing = FALSE
    /\ notificationShown = FALSE
    /\ lastKnownState \in ValidatorStates
    /\ reload = 0
    /\ cartTotal = 0
    /\ hasSample = FALSE
    /\ rows = <<>>
    /\ cachedCart = Null
    /\ lastProtectionRun = 0
    /\ instances = <<>>

ValidatorNext ==
    \/ \E p \in Totals : ExtSetTotal(p)
    \/ SampleAdded
    \/ CheckCart
    \/ \E t \in Pending, r \in Outcomes : CheckCartDone(t, r)
    \/ \E t \in Pending, r \in PostOutcomes : RemoveSampleDone(t, r)
    \/ VisibilityChange
    \/ CartCallIntercepted
    \/ \E rendered \in ValidatorStates : Reloaded(rendered)

ValidatorSpec == ValidatorInit /\ [][ValidatorNext]_vars

\* ------------------------------------- GiftThreshold (gift-threshold.js)
\* The sample widget of assets/gift-threshold.js as far as it watches the
\* cart: checkInitialState, the amount updater and validateThreshold.  Its
\* fetch("/cart.js") is not tested for response.ok: a failed GET ends in the
\* catch of the handler that awaited it.

\* fields of GiftThresholdValidator; GiftThreshold never touches them
checkerVars == <<isRefreshing, notificationShown, lastKnownState>>

\* cart.total_price >= this.threshold
ThresholdReached(c) == c.total_price >= threshold

\* cart.items.some(pred)
CartHasSample(c) == \E i \in 1..Len(c.items) : IsFreeSample(c.items[i])

\* validateThreshold: the sample is to be removed
SampleToRemove(c) == ~ThresholdReached(c) /\ CartHasSample(c)

\* POST /cart/change.js of validateThreshold awaiting its response; total is
\* total_price of the snapshot validateThreshold fetched
ChangeSent(key, total) ==
    [pc |-> "validatePost", st |-> "sent", id |-> key, total |-> total]

\* validateThreshold up to its first await, the other invocations being rest
StartValidate(rest) ==
    IF isValidating
    THEN tasks' = rest /\ UNCHANGED isValidating
    ELSE tasks' = rest (+) SetToBag({Sent("validateFetch", 0)})
            /\ isValidating' = TRUE

\* a listener of listenForCartUpdates fires: validateThreshold
ValidateThreshold ==
    /\ isValidating \/ CanStart
    /\ StartValidate(tasks)
    /\ ev' = Did("validateThreshold", "none", "none", "none", "none",
                 ~isValidating)
    /\ UNCHANGED <<cart, cartData, lastCartTotal, lastUpdateTime, selectedGift,
                   isProcessing, listening, display, loading, now, failures,
                   windowStart, reload, cartTotal, hasSample>>
    /\ UNCHANGED checkerVars
    /\ UNCHANGED <<protectionVars, instances>>

\* validateThreshold, resumed after GET /cart.js
ValidateFetched(t, r) ==
    /\ t.pc = "validateFetch"
    /\ CanFail(r)
    /\ failures' = Failed(r)
    /\ IF r = "ok" /\ SampleToRemove(cart)
       THEN /\ tasks' = Without(t) (+)
                 SetToBag({ChangeSent(cart.items[FindSample(cart.items)].key,
                                      cart.total_price)})
            /\ ev' = Did("validateFetched", r, "change", "none", "none", FALSE)
            /\ UNCHANGED <<isValidating, cartTotal, hasSample>>
       ELSE /\ tasks' = Without(t)
            /\ isValidating' = FALSE
            /\ cartTotal' = IF r = "ok" THEN cart.total_price ELSE cartTotal
            /\ hasSample' = IF r = "ok" THEN CartHasSample(cart) ELSE hasSample
            /\ ev' = Did("validateFetched", r, "none", "none", "none", FALSE)
    /\ UNCHANGED <<cart, cartData, lastCartTotal, lastUpdateTime, selectedGift,
                   isProcessing, listening, display, loading, now,
                   windowStart, reload>>
    /\ UNCHANGED checkerVars
    /\ UNCHANGED <<protectionVars, instances>>

\* validateThreshold: the response of POST /cart/change.js lets it go on
ChangeAnswered(r) == r \in {"ok", "rejected"}

\* validateThreshold, resumed after POST /cart/change.js
ValidateChanged(t, r) ==
    /\ t.pc = "validatePost"
    /\ PostCanFail(r)
    /\ failures' = IF r = "ok" THEN failures ELSE failures + 1
    /\ cart' = IF r = "ok" THEN [cart EXCEPT !.items = DropLine(@, t.id)]
               ELSE cart
    /\ IF ChangeAnswered(r)
       THEN /\ reload' = reload + 1
            /\ cartTotal' = t.total
            /\ hasSample' = TRUE
            /\ ev' = Did("validateChanged", r, "none", "warning", "reload",
                         FALSE)
       ELSE /\ ev' = Did("validateChanged", r, "none", "none", "none", FALSE)
            /\ UNCHANGED <<reload, cartTotal, hasSample>>
    /\ isValidating' = FALSE
    /\ tasks' = Without(t)
    /\ UNCHANGED <<cartData, lastCartTotal, lastUpdateTime, selectedGift,
                   isProcessing, listening, display, loading, now,
                   windowStart>>
    /\ UNCHANGED checkerVars
    /\ UNCHANGED <<protectionVars, instances>>

\* checkInitialState, resumed after GET /cart.js: it calls validateThreshold
InitialStateFetched(t, r) ==
    /\ t.pc = "initialFetch"
    /\ CanFail(r)
    /\ failures' = Failed(r)
    /\ IF r = "ok"
       THEN /\ hasSample' = CartHasSample(cart)
            /\ cartTotal' = cart.total_price
            /\ StartValidate(Without(t))
            /\ ev' = Did("checkInitialState", r, "none", "none", "none",
                         ~isValidating)
       ELSE /\ tasks' = Without(t)
            /\ ev' = Did("checkInitialState", r, "none", "none", "none", FALSE)
            /\ UNCHANGED <<hasSample, cartTotal, isValidating>>
    /\ UNCHANGED <<cart, cartData, lastCartTotal, lastUpdateTime, selectedGift,
                   isProcessing, listening, display, loading, now,
                   windowStart, reload>>
    /\ UNCHANGED checkerVars
    /\ UNCHANGED <<protectionVars, instances>>

\* the interval of startAmountUpdater ticks: updateAmount up to its await
UpdateAmount ==
    /\ CanStart
    /\ tasks' = tasks (+) SetToBag({Sent("amountFetch", 0)})
    /\ ev' = Did("updateAmount", "none", "none", "none", "none", TRUE)
    /\ UNCHANGED <<cart, cartData, lastCartTotal, lastUpdateTime, selectedGift,
                   isProcessing, listening, display, loading, now, failures,
                   windowStart>>
    /\ UNCHANGED validatorVars
    /\ UNCHANGED <<protectionVars, instances>>

\* updateAmount, resumed after GET /cart.js
AmountFetched(t, r) ==
    /\ t.pc = "amountFetch"
    /\ CanFail(r)
    /\ failures' = Failed(r)
    /\ IF r = "ok" /\ SampleToRemove(cart)
       THEN /\ StartValidate(Without(t))
            /\ ev' = Did("amountFetched", r, "none", "none", "none",
                         ~isValidating)
            /\ UNCHANGED cartTotal
       ELSE /\ tasks' = Without(t)
            /\ cartTotal' = IF r = "ok" THEN cart.total_price ELSE cartTotal
            /\ ev' = Did("amountFetched", r, "none", "none", "none", FALSE)
            /\ UNCHANGED isValidating
    /\ UNCHANGED <<cart, cartData, lastCartTotal, lastUpdateTime, selectedGift,
                   isProcessing, listening, display, loading, now,
                   windowStart, reload, hasSample>>
    /\ UNCHANGED checkerVars
    /\ UNCHANGED <<protectionVars, instances>>

\* an invocation of addSampleToCart awaiting a response; total and sample
\* record the cart at the time of the call: its total_price and whether it
\* held a sample line
SampleSent(pc, id, total, sample) ==
    [pc |-> pc, st |-> "sent", id |-> id, total |-> total, sample |-> sample]

\* addSampleToCart up to the GET of checkAndRemoveExistingSample (click on
\* #add-sample-btn); selected: this.selectedProduct is set, sized:
\* this.selectedSampleVariantId or this.universalSampleId is set
AddSampleToCart(selected, sized) ==
    /\ reload < MaxReloads
    /\ IF isProcessing
       THEN /\ ev' = Did("addSampleToCart", "none", "none", "none", "none",
                         FALSE)
            /\ UNCHANGED <<tasks, isProcessing>>
       ELSE IF ~selected \/ ~sized
       THEN /\ ev' = Did("addSampleToCart", "none", "none", "error", "none",
                         FALSE)
            /\ UNCHANGED <<tasks, isProcessing>>
       ELSE /\ CanStart
            /\ isProcessing' = TRUE
            /\ tasks' = tasks (+)
                 SetToBag({SampleSent("sampleCheck", 0, cart.total_price,
                                      CartHasSample(cart))})
            /\ ev' = Did("addSampleToCart", "none", "none", "none", "none",
                         TRUE)
    /\ UNCHANGED <<cart, cartData, lastCartTotal, lastUpdateTime, selectedGift,
                   listening, display, loading, now, failures, windowStart>>
    /\ UNCHANGED validatorVars
    /\ UNCHANGED <<protectionVars, instances>>

\* checkAndRemoveExistingSample, resumed after GET /cart.js: it removes the
\* first sample line it finds; without one, or when the GET failed, it
\* returns and addSampleToCart goes on to POST /cart/add.js
SampleChecked(t, r) ==
    /\ t.pc = "sampleCheck"
    /\ CanFail(r)
    /\ failures' = Failed(r)
    /\ IF r = "ok" /\ FindSample(cart.items) # 0
       THEN /\ tasks' = Without(t) (+)
                 SetToBag({SampleSent("sampleChange",
                                      cart.items[FindSample(cart.items)].key,
                                      t.total, t.sample)})
            /\ ev' = Did("sampleChecked", r, "change", "none", "none", FALSE)
       ELSE /\ tasks' = Without(t) (+)
                 SetToBag({SampleSent("sampleAdd", SampleLine.variant_id,
                                      t.total, t.sample)})
            /\ ev' = Did("sampleChecked", r, "add", "none", "none", FALSE)
    /\ UNCHANGED <<cart, cartData, lastCartTotal, lastUpdateTime, selectedGift,
                   isProcessing, listening, display, loading, now,
                   windowStart>>
    /\ UNCHANGED validatorVars
    /\ UNCHANGED <<protectionVars, instances>>

\* checkAndRemoveExistingSample, resumed after POST /cart/change.js: its
\* result is not looked at, addSampleToCart goes on to POST /cart/add.js
SampleChanged(t, r) ==
    /\ t.pc = "sampleChange"
    /\ PostCanFail(r)
    /\ failures' = IF r = "ok" THEN failures ELSE failures + 1
    /\ cart' = IF r = "ok" THEN [cart EXCEPT !.items = DropLine(@, t.id)]
               ELSE cart
    /\ tasks' = Without(t) (+)
         SetToBag({SampleSent("sampleAdd", SampleLine.variant_id,
                              t.total, t.sample)})
    /\ ev' = Did("sampleChanged", r, "add", "none", "none", FALSE)
    /\ UNCHANGED <<cartData, lastCartTotal, lastUpdateTime, selectedGift,
                   isProcessing, listening, display, loading, now,
                   windowStart>>
    /\ UNCHANGED validatorVars
    /\ UNCHANGED <<protectionVars, instances>>

\* POST /cart/add.js of the sample: a line with the same variant and
\* properties is merged
AddSample(items) ==
    IF \E i \in 1..Len(items) : items[i].key = SampleLine.key
    THEN items
    ELSE Append(items, SampleLine)

\* addSampleToCart, resumed after POST /cart/add.js
SamplePosted(t, r) ==
    /\ t.pc = "sampleAdd"
    /\ PostCanFail(r)
    /\ failures' = IF r = "ok" THEN failures ELSE failures + 1
    /\ IF r = "ok"
       THEN /\ cart' = [cart EXCEPT !.items = AddSample(@)]
            /\ reload' = reload + 1
            /\ ev' = Did("samplePosted", r, "none", "success", "reload", FALSE)
       ELSE /\ ev' = Did("samplePosted", r, "none", "error", "none", FALSE)
            /\ UNCHANGED <<cart, reload>>
    /\ isProcessing' = FALSE
    /\ tasks' = Without(t)
    /\ UNCHANGED <<cartData, lastCartTotal, lastUpdateTime, selectedGift,
                   listening, display, loading, now, windowStart,
                   isValidating, cartTotal, hasSample>>
    /\ UNCHANGED checkerVars
    /\ UNCHANGED <<protectionVars, instances>>

\* a scheduled location.reload(true) fires: the page goes and a new
\* GiftThreshold is constructed from the section rendered for the cart
GiftThresholdReloaded ==
    /\ reload > 0
    /\ reload' = 0
    /\ isValidating' = FALSE
    /\ isProcessing' = FALSE
    /\ hasSample' = FALSE
    /\ cartTotal' = cart.total_price
    /\ tasks' = SetToBag({Sent("amountFetch", 0), Sent("initialFetch", 0)})
    /\ ev' = Did("reloaded", "none", "none", "none", "none", FALSE)
    /\ UNCHANGED <<cart, cartData, lastCartTotal, lastUpdateTime, selectedGift,
                   listening, display, loading, now, failures,
                   windowStart>>
    /\ UNCHANGED checkerVars
    /\ UNCHANGED <<protectionVars, instances>>

\* the state after init: updateAmount and checkInitialState await the cart
GiftThresholdInit ==
    /\ cart \in {[total_price |-> p, items |-> it] :
                    p \in Totals,
                    it \in {<<RegularLine>>, <<RegularLine, SampleLine>>}}
    /\ cartData = Null
    /\ lastCartTotal = 0
    /\ lastUpdateTime = 0
    /\ selectedGift = 0
    /\ isProcessing = FALSE
    /\ listening = FALSE
    /\ display = "none"
    /\ loading = FALSE
    /\ tasks = SetToBag({Sent("amountFetch", 0), Sent("initialFetch", 0)})
    /\ now = StartTime
    /\ failures = 0
    /\ windowStart = 0
    /\ ev = Idle
    /\ isValidating = FALSE
    /\ isRefreshing = FALSE
    /\ notificationShown = FALSE
    /\ lastKnownState = "null"
    /\ reload = 0
    /\ cartTotal = cart.total_price
    /\ hasSample = FALSE
    /\ rows = <<>>
    /\ cachedCart = Null
    /\ lastProtectionRun = 0
    /\ instances = <<>>

GiftThresholdNext ==
    \/ \E p \in Totals : ExtSetTotal(p)
    \/ SampleAdded
    \/ ValidateThreshold
    \/ \E t \in Pending, r \in Outcomes : ValidateFetched(t, r)
    \/ \E t \in Pending, r \in PostOutcomes : ValidateChanged(t, r)
    \/ \E t \in Pending, r \in Outcomes : InitialStateFetched(t, r)
    \/ UpdateAmount
    \/ \E t \in Pending, r \in Outcomes : AmountFetched(t, r)
    \/ \E selected \in BOOLEAN, sized \in BOOLEAN :
          AddSampleToCart(selected, sized)
    \/ \E t \in Pending, r \in Outcomes : SampleChecked(t, r)
    \/ \E t \in Pending, r \in PostOutcomes : SampleChanged(t, r)
    \/ \E t \in Pending, r \in PostOutcomes : SamplePosted(t, r)
    \/ GiftThresholdReloaded

GiftThresholdSpec == GiftThresholdInit /\ [][GiftThresholdNext]_vars

\* ------------------------------------- either validator on its page
\* A page runs GiftThresholdValidator (its lastKnownState is read from the
\* rendered section) or the legacy GiftThreshold (which has no such field).
ValidationNext ==
    \/ lastKnownState \in ValidatorStates /\ ValidatorNext
    \/ lastKnownState = "null" /\ GiftThresholdNext

ValidationSpec ==
    (ValidatorInit \/ GiftThresholdInit) /\ [][ValidationNext]_vars

\* ------------------------------------------------ CartGiftProtection
\* this.protectionDebounce
protectionDebounce == 500

\* the step the clock advances by between runs of the protection
ProtectionTickStep == protectionDebounce \div 2

\* merchandise of variant v, bought as a line of its own
PlainLine(v) == [key |-> 10 + v, variant_id |-> v, properties |-> <<>>]

\* a line as cart.js lists it, with its quantity
WithQuantity(l, q) ==
    [key |-> l.key, variant_id |-> l.variant_id, properties |-> l.properties,
     quantity |-> q]

\* the lines of the carts the protection meets: merchandise of the variant
\* that is also offered as the gift, the gift, and a legacy sample
ProtectionLines ==
    {WithQuantity(PlainLine(1), 2), WithQuantity(GiftLine(1), 1),
     WithQuantity(SampleLine, 1)}

ProtectionCarts ==
    {[total_price |-> 10500, items |-> it] :
        it \in {x \in UNION {[1..n -> ProtectionLines] : n \in 0..MaxLines} :
                    \A i, j \in 1..Len(x) : i # j => x[i].key # x[j].key}}

\* the order in which the host page lists the lines
RowOrder(items, swap) ==
    IF swap THEN [i \in 1..Len(items) |-> items[Len(items) + 1 - i]]
    ELSE items

\* The rows the host page renders for items, in document order. The row at
\* position i holds the input #Quantity-i; attrs: the inputs carry
\* data-quantity-variant-id (variant 0: the attribute is absent); marks: the
\* rows of complimentary lines carry data-is-gift or data-is-sample. A
\* freshly rendered input is enabled and shows the quantity of its line.
Render(items, swap, marks, attrs) ==
    [i \in 1..Len(items) |->
        LET l == RowOrder(items, swap)[i]
        IN  [line |-> l.key,
             variant |-> IF attrs THEN l.variant_id ELSE 0,
             marked |-> marks /\ (IsFreeGift(l) \/ IsFreeSample(l)),
             disabled |-> FALSE,
             value |-> l.quantity]]

\* protectGiftQuantities: reset all quantity controls first
ResetControls(rs) ==
    [i \in 1..Len(rs) |->
        IF rs[i].marked THEN rs[i] ELSE [rs[i] EXCEPT !.disabled = FALSE]]

\* protectGiftQuantities: the input found for the item at position k of
\* cart.items (0: none): the first input in document order that carries the
\* variant id of the item, else #Quantity-k
FindInput(rs, item, k) ==
    IF \E i \in 1..Len(rs) : rs[i].variant = item.variant_id
    THEN CHOOSE i \in 1..Len(rs) :
            /\ rs[i].variant = item.variant_id
            /\ \A j \in 1..(i - 1) : rs[j].variant # item.variant_id
    ELSE IF k <= Len(rs) THEN k ELSE 0

\* protectGiftQuantities: only disable gift items (cart.items.forEach from
\* position k on)
RECURSIVE DisableGifts(_, _, _)
DisableGifts(items, k, rs) ==
    IF k > Len(items) THEN rs
    ELSE LET i == IF IsFreeGift(items[k]) THEN FindInput(rs, items[k], k)
                   ELSE 0
         IN  DisableGifts(items, k + 1,
                IF i = 0 THEN rs
                ELSE [rs EXCEPT ![i].disabled = TRUE, ![i].value = 1])

\* protectGiftQuantities: only update if cart has changed
CartUnchanged(c) == cachedCart # Null /\ c.items = cachedCart.items

\* protectGiftQuantities up to its await (startProtection, and 200 ms after
\* a quantity change or a cart update)
ProtectGiftQuantities ==
    /\ IF now - lastProtectionRun < protectionDebounce
       THEN /\ ev' = Did("protectGiftQuantities", "none", "none", "none",
                         "none", FALSE)
            /\ UNCHANGED <<lastProtectionRun, tasks>>
       ELSE /\ CanStart
            /\ lastProtectionRun' = now
            /\ tasks' = tasks (+) SetToBag({Sent("protFetch", 0)})
            /\ ev' = Did("protectGiftQuantities", "none", "none", "none",
                         "none", TRUE)
    /\ UNCHANGED <<cart, cartData, lastCartTotal, lastUpdateTime, selectedGift,
                   isProcessing, listening, display, loading, now, failures,
                   windowStart, rows, cachedCart>>
    /\ UNCHANGED validatorVars
    /\ UNCHANGED instances

\* protectGiftQuantities, resumed after GET /cart.js
ProtectFetched(t, r) ==
    /\ t.pc = "protFetch"
    /\ CanFail(r)
    /\ failures' = Failed(r)
    /\ tasks' = Without(t)
    /\ IF r = "fail"
       THEN /\ ev' = Did("protected", r, "none", "none", "none", FALSE)
            /\ UNCHANGED <<rows, cachedCart>>
       ELSE IF CartUnchanged(cart)
       THEN /\ ev' = Did("protected", r, "none", "none", "unchanged", FALSE)
            /\ UNCHANGED <<rows, cachedCart>>
       ELSE /\ cachedCart' = cart
            /\ rows' = DisableGifts(cart.items, 1, ResetControls(rows))
            /\ ev' = Did("protected", r, "none", "none", "protected", FALSE)
    /\ UNCHANGED <<cart, cartData, lastCartTotal, lastUpdateTime, selectedGift,
                   isProcessing, listening, display, loading, now, windowStart,
                   lastProtectionRun>>
    /\ UNCHANGED validatorVars
    /\ UNCHANGED instances

\* the shopper changes the cart and the host page renders its rows anew
CartChanged(c, swap, marks, attrs) ==
    /\ c # cart
    /\ cart' = c
    /\ rows' = Render(c.items, swap, marks, attrs)
    /\ ev' = Idle
    /\ UNCHANGED <<cartData, lastCartTotal, lastUpdateTime, selectedGift,
                   isProcessing, listening, display, loading, tasks, now,
                   failures, windowStart, cachedCart, lastProtectionRun>>
    /\ UNCHANGED validatorVars
    /\ UNCHANGED instances

\* the host page renders the rows of the cart anew, the cart being as it was
Rerender(swap, marks, attrs) ==
    /\ rows' = Render(cart.items, swap, marks, attrs)
    /\ ev' = Idle
    /\ UNCHANGED <<cart, cartData, lastCartTotal, lastUpdateTime, selectedGift,
                   isProcessing, listening, display, loading, tasks, now,
                   failures, windowStart, cachedCart, lastProtectionRun>>
    /\ UNCHANGED validatorVars
    /\ UNCHANGED instances

\* time passes
ProtectionTick ==
    /\ now + ProtectionTickStep <= StartTime + MaxTicks * ProtectionTickStep
    /\ now' = now + ProtectionTickStep
    /\ ev' = Idle
    /\ UNCHANGED <<cart, cartData, lastCartTotal, lastUpdateTime, selectedGift,
                   isProcessing, listening, display, loading, tasks, failures,
                   windowStart>>
    /\ UNCHANGED validatorVars
    /\ UNCHANGED <<protectionVars, instances>>

\* a cart page: the rows render the cart, the protection has not run yet
ProtectionInit ==
    /\ cart \in ProtectionCarts
    /\ rows \in {Render(cart.items, swap, marks, attrs) :
                    swap \in BOOLEAN, marks \in BOOLEAN, attrs \in BOOLEAN}
    /\ cachedCart = Null
    /\ lastProtectionRun = 0
    /\ instances = <<>>
    /\ cartData = Null
    /\ lastCartTotal = 0
    /\ lastUpdateTime = 0
    /\ selectedGift = 0
    /\ isProcessing = FALSE
    /\ listening = FALSE
    /\ display = "none"
    /\ loading = FALSE
    /\ tasks = EmptyBag
    /\ now = StartTime
    /\ failures = 0
    /\ windowStart = 0
    /\ ev = Idle
    /\ isValidating = FALSE
    /\ isRefreshing = FALSE
    /\ notificationShown = FALSE
    /\ lastKnownState = "null"
    /\ reload = 0
    /\ cartTotal = 0
    /\ hasSample = FALSE

ProtectionNext ==
    \/ ProtectGiftQuantities
    \/ \E t \in Pending, r \in Outcomes : ProtectFetched(t, r)
    \/ \E c \in ProtectionCarts, swap \in BOOLEAN, marks \in BOOLEAN,
          attrs \in BOOLEAN : CartChanged(c, swap, marks, attrs)
    \/ \E swap \in BOOLEAN, marks \in BOOLEAN, attrs \in BOOLEAN :
          Rerender(swap, marks, attrs)
    \/ ProtectionTick

ProtectionSpec == ProtectionInit /\ [][ProtectionNext]_vars

\* ------------------------------------------------ the window.fetch wrappers

\* first argument of a fetch call: a URL string, or a Request object
RequestObject == "Request"

\* url.includes(part), for the parts the wrappers look for
UrlIncludes(url, part) ==
    CASE part = "/cart/add"    -> url = "/cart/add.js"
      [] part = "/cart/change" -> url = "/cart/change.js"
      [] part = "/cart/"       -> url \in {"/cart/add.js", "/cart/change.js"}
      [] OTHER                 -> FALSE

\* the wrapper calls includes() on a value that has no such method
Throws(c) ==
    CASE c.wrapper = "GiftThreshold" -> c.url = RequestObject
      [] c.wrapper = "FreeGiftManager" ->
            /\ c.url # RequestObject
            /\ \E part \in {"/cart/add", "/cart/update", "/cart/change",
                            "/cart/clear"} : UrlIncludes(c.url, part)
            /\ c.body = "formData"
      [] OTHER -> FALSE

\* the wrapper takes the call for a cart change and schedules its callback
Schedules(c) ==
    CASE c.wrapper = "GiftThreshold" ->
            /\ c.url # RequestObject
            /\ \E part \in {"/cart/change", "/cart/update"} :
                  UrlIncludes(c.url, part)
      [] c.wrapper = "FreeGiftManager" ->
            /\ c.url # RequestObject
            /\ \E part \in {"/cart/add", "/cart/update", "/cart/change",
                            "/cart/clear"} : UrlIncludes(c.url, part)
            /\ c.body \in {"plain", "absent"}
      [] OTHER ->
            /\ c.url # RequestObject
            /\ UrlIncludes(c.url, "/cart/")

\* what the caller of the wrapped fetch receives when the original fetch
\* settled with r: its rejection, a TypeError of the wrapper, or its response
Delivered(c, r) ==
    IF r = "error" THEN "rejection"
    ELSE IF Throws(c) THEN "TypeError"
    ELSE "response"

\* some script of the page calls window.fetch, replaced by the wrapper of
\* class w, with a URL and a body
WrappedFetch(w, url, body) ==
    /\ CanStart
    /\ tasks' = tasks (+)
          SetToBag({Sent("wrapped",
                         [wrapper |-> w, url |-> url, body |-> body])})
    /\ ev' = Idle
    /\ UNCHANGED <<cart, cartData, lastCartTotal, lastUpdateTime,
                   selectedGift, isProcessing, listening, display, loading,
                   now, failures, windowStart>>
    /\ UNCHANGED validatorVars
    /\ UNCHANGED <<protectionVars, instances>>

\* the original fetch settles and the wrapper resumes after its await
OriginalSettled(t, r) ==
    /\ t.pc = "wrapped"
    /\ LET ran == r # "error" /\ ~Throws(t.id)
           timer == IF ran /\ Schedules(t.id)
                    THEN SetToBag({Sent("timer", t.id)})
                    ELSE EmptyBag
       IN  /\ tasks' = Without(t) (+) timer
           /\ notificationShown' =
                 IF ran /\ Schedules(t.id)
                        /\ t.id.wrapper = "GiftThresholdValidator"
                 THEN FALSE
                 ELSE notificationShown
           /\ ev' = Did("wrappedFetch", r, "none", Delivered(t.id, r),
                        "none", timer # EmptyBag)
    /\ UNCHANGED <<cart, cartData, lastCartTotal, lastUpdateTime,
                   selectedGift, isProcessing, listening, display, loading,
                   now, failures, windowStart, isValidating, isRefreshing,
                   lastKnownState, reload, cartTotal, hasSample>>
    /\ UNCHANGED <<protectionVars, instances>>

\* the scheduled callback runs (validateThreshold, fetchCart + updateUI or
\* checkCart, which LegacySpec and ValidationSpec follow)
TimerFired(t) ==
    /\ t.pc = "timer"
    /\ tasks' = Without(t)
    /\ ev' = Did("timer", "none", "none", "none", "none", FALSE)
    /\ UNCHANGED <<cart, cartData, lastCartTotal, lastUpdateTime,
                   selectedGift, isProcessing, listening, display, loading,
                   now, failures, windowStart>>
    /\ UNCHANGED validatorVars
    /\ UNCHANGED <<protectionVars, instances>>

WrapperInit ==
    /\ cart = [total_price |-> 8000, items |-> <<RegularLine>>]
    /\ cartData = Null
    /\ lastCartTotal = 0
    /\ lastUpdateTime = 0
    /\ selectedGift = 0
    /\ isProcessing = FALSE
    /\ listening = FALSE
    /\ display = "none"
    /\ loading = FALSE
    /\ tasks = EmptyBag
    /\ now = StartTime
    /\ failures = 0
    /\ windowStart = 0
    /\ ev = Idle
    /\ isValidating = FALSE
    /\ isRefreshing = FALSE
    /\ notificationShown \in BOOLEAN
    /\ lastKnownState = "null"
    /\ reload = 0
    /\ cartTotal = 0
    /\ hasSample = FALSE
    /\ rows = <<>>
    /\ cachedCart = Null
    /\ lastProtectionRun = 0
    /\ instances = <<>>

WrapperNext ==
    \* the three classes that wrap window.fetch; URL strings or a Request
    \* object; a JSON body with or without the text _is_free_gift, a
    \* FormData object, or no body
    \/ \E w \in {"GiftThreshold", "FreeGiftManager", "GiftThresholdValidator"},
          url \in {"/cart/add.js", "/cart/change.js", "/cart.js",
                   "/products.json", RequestObject},
          body \in {"flagged", "plain", "formData", "absent"} :
          WrappedFetch(w, url, body)
    \/ \E t \in Pending, r \in PostOutcomes : OriginalSettled(t, r)
    \/ \E t \in Pending : TimerFired(t)

WrapperSpec == WrapperInit /\ [][WrapperNext]_vars

\* ------------------------------------- FreeGiftManager instances and destroy

\* instances constructed on one page
MaxInstances == 2

\* the fields the constructor sets; attached: startMonitoring has added the
\* document listeners and the cartUpdate subscription; destroyed: destroy()
\* was called on the instance
NewManager ==
    [monitoringActive |-> FALSE, attached |-> FALSE, destroyed |-> FALSE,
     lastUpdateTime |-> 0, cartData |-> Null,
     threshold |-> [nan |-> FALSE, v |-> threshold]]

\* the instance whose section element is in the document
Live(i) == i = Len(instances)

\* a request of instance i naming the line key k
Of(i, k) == [inst |-> i, key |-> k]

\* the handler run e, made by the instances of S
By(S, e) == [inst |-> S] @@ e

\* shopify:section:load: the manager of the section is destroyed (destroy()
\* resets monitoringActive and removes the listeners of the section) and a
\* new one constructed, whose init starts with fetchCart
SectionLoad ==
    /\ Len(instances) < MaxInstances
    /\ CanStart
    /\ instances' =
          Append([i \in 1..Len(instances) |->
                     IF Live(i)
                     THEN [instances[i] EXCEPT !.monitoringActive = FALSE,
                                               !.destroyed = TRUE]
                     ELSE instances[i]],
                 NewManager)
    /\ tasks' = tasks (+) SetToBag({Sent("initFetch", Of(Len(instances) + 1, 0))})
    /\ display' = "none"
    /\ loading' = FALSE
    /\ ev' = By({Len(instances) + 1},
                Did("sectionLoad", "none", "none", "none", "none", TRUE))
    /\ UNCHANGED <<cart, cartData, lastCartTotal, lastUpdateTime,
                   selectedGift, isProcessing, listening, now, failures,
                   windowStart>>
    /\ UNCHANGED validatorVars
    /\ UNCHANGED protectionVars

\* updateUI of instance i on its snapshot cd; only the section of the live
\* instance is in the document
UpdateUIOf(i, cd, rest) ==
    CASE UiOutcome(cd) = "nodata" ->
            /\ tasks' = rest
            /\ UNCHANGED <<display, loading>>
      [] UiOutcome(cd) = "remove" ->
            \* removeGift up to its await
            /\ tasks' = rest (+)
                  SetToBag({Sent("rmPost",
                                 Of(i, cd.items[FindGift(cd.items)].key))})
            /\ loading' = IF Live(i) THEN TRUE ELSE loading
            /\ UNCHANGED display
      [] OTHER ->
            /\ tasks' = rest
            /\ display' = IF Live(i) THEN StateFor(cd) ELSE display
            /\ UNCHANGED loading

\* init or debouncedUpdate of an instance, resumed after its fetchCart
ManagerFetched(t, r) ==
    /\ t.pc \in {"initFetch", "updFetch"}
    /\ CanFail(r)
    /\ failures' = Failed(r)
    /\ LET i == t.id.inst
           cd == IF r = "ok" THEN cart ELSE instances[i].cartData
           starts == t.pc = "initFetch" /\ ~instances[i].monitoringActive
       IN  /\ instances' =
                 [instances EXCEPT
                     ![i].cartData = cd,
                     ![i].monitoringActive = IF starts THEN TRUE ELSE @,
                     ![i].attached = IF starts THEN TRUE ELSE @]
           /\ UpdateUIOf(i, cd, Without(t))
           /\ ev' = By({i}, Did("managerFetched", r, UiPost(cd), "none",
                                UiOutcome(cd), FALSE))
    /\ UNCHANGED <<cart, cartData, lastCartTotal, lastUpdateTime,
                   selectedGift, isProcessing, listening, now, windowStart>>
    /\ UNCHANGED validatorVars
    /\ UNCHANGED protectionVars

\* the instances whose debouncedUpdate fetches on a cart event from source
Reconcilers(source) ==
    IF source \in OwnSources THEN {}
    ELSE {i \in 1..Len(instances) :
             /\ instances[i].attached
             /\ now - instances[i].lastUpdateTime >= updateDebounceTime}

\* a cart event reaches every listener that was attached: handleCartUpdate
\* and debouncedUpdate of each instance up to its await
CartEvent(source) ==
    /\ \E i \in 1..Len(instances) : instances[i].attached
    /\ BagCardinality(tasks) + Cardinality(Reconcilers(source)) <= MaxTasks
    /\ instances' =
          [i \in 1..Len(instances) |->
              IF i \in Reconcilers(source)
              THEN [instances[i] EXCEPT !.lastUpdateTime = now]
              ELSE instances[i]]
    /\ tasks' = tasks (+)
          SetToBag({Sent("updFetch", Of(i, 0)) : i \in Reconcilers(source)})
    /\ ev' = By(Reconcilers(source),
                Did("cartEvent", "none", "none", "none", "none",
                    Reconcilers(source) # {}))
    /\ UNCHANGED <<cart, cartData, lastCartTotal, lastUpdateTime,
                   selectedGift, isProcessing, listening, display, loading,
                   now, failures, windowStart>>
    /\ UNCHANGED validatorVars
    /\ UNCHANGED protectionVars

\* removeGift of an instance, resumed after POST /cart/change
RemoveAnswered(t, r) ==
    /\ t.pc = "rmPost"
    /\ CanFail(r)
    /\ failures' = Failed(r)
    /\ LET i == t.id.inst
       IN  IF r = "ok"
           THEN /\ cart' = [cart EXCEPT !.items = DropLine(@, t.id.key)]
                /\ instances' = [instances EXCEPT ![i].cartData = cart']
                /\ tasks' = Without(t)
                /\ display' = IF Live(i) THEN StateFor(cart') ELSE display
                /\ ev' = [By({i}, Did("removeAnswered", "none", "none",
                                      "warning", "render", FALSE))
                             EXCEPT !.published = "free-gift-remove"]
           ELSE /\ tasks' = Without(t)
                /\ ev' = By({i}, Did("removeAnswered", "none", "none",
                                     "error", "none", FALSE))
                /\ UNCHANGED <<cart, instances, display>>
    /\ loading' = IF Live(t.id.inst) THEN FALSE ELSE loading
    /\ UNCHANGED <<cartData, lastCartTotal, lastUpdateTime, selectedGift,
                   isProcessing, listening, now, windowStart>>
    /\ UNCHANGED validatorVars
    /\ UNCHANGED protectionVars

LifecycleInit ==
    /\ cart \in {[total_price |-> p, items |-> it] :
                    p \in Totals,
                    it \in {<<RegularLine>>, <<RegularLine, GiftLine(1)>>}}
    /\ cartData = Null
    /\ lastCartTotal = 0
    /\ lastUpdateTime = 0
    /\ selectedGift = 0
    /\ isProcessing = FALSE
    /\ listening = FALSE
    /\ display = "none"
    /\ loading = FALSE
    /\ tasks = SetToBag({Sent("initFetch", Of(1, 0))})
    /\ now = StartTime
    /\ failures = 0
    /\ windowStart = 0
    /\ ev = Idle
    /\ isValidating = FALSE
    /\ isRefreshing = FALSE
    /\ notificationShown = FALSE
    /\ lastKnownState = "null"
    /\ reload = 0
    /\ cartTotal = 0
    /\ hasSample = FALSE
    /\ rows = <<>>
    /\ cachedCart = Null
    /\ lastProtectionRun = 0
    /\ instances = <<NewManager>>

LifecycleNext ==
    \/ \E p \in Totals : ExtSetTotal(p)
    \/ Tick
    \/ SectionLoad
    \/ \E t \in Pending, r \in Outcomes : ManagerFetched(t, r)
    \* the cartUpdate topic with its source, or the document event
    \/ \E source \in Sources \cup {"cart:update"} : CartEvent(source)
    \/ \E t \in Pending, r \in Outcomes : RemoveAnswered(t, r)

LifecycleSpec == LifecycleInit /\ [][LifecycleNext]_vars

\* ------------------------------------------- the threshold read from the DOM

\* longest data-threshold attribute drawn
MaxDigits == 5

\* a JavaScript number: an integer, or NaN
Num(n) == [nan |-> FALSE, v |-> n]

NaN == [nan |-> TRUE, v |-> 0]

\* the digits drawn for the attribute
DigitChars == {"0", "1", "9"}

DigitValue(c) == CASE c = "0" -> 0 [] c = "1" -> 1 [] OTHER -> 9

\* dataset.threshold: undefined on a section without the attribute (which
\* parseInt converts to the string "undefined"), or a string of digits and
\* of a character that is no digit
DataThresholds ==
    {<<"undefined">>}
        \cup UNION {[1..n -> DigitChars \cup {"x"}] : n \in 0..MaxDigits}

\* number of leading digits of s
RECURSIVE LeadingDigits(_)
LeadingDigits(s) ==
    IF s = <<>> \/ Head(s) \notin DigitChars THEN 0
    ELSE 1 + LeadingDigits(Tail(s))

RECURSIVE DigitsValue(_, _)
DigitsValue(s, k) ==
    IF k = 0 THEN 0 ELSE 10 * DigitsValue(s, k - 1) + DigitValue(s[k])

\* parseInt(s): the integer its leading digits spell, NaN without any
ParseInt(s) ==
    IF LeadingDigits(s) = 0 THEN NaN
    ELSE Num(DigitsValue(s, LeadingDigits(s)))

\* addGiftToCart: the security check passes on snapshot cd, total_price <
\* threshold being false (as every comparison with NaN is)
AddAccepted(m, cd) ==
    ~(~m.threshold.nan /\ cd.total_price < m.threshold.v)

\* updateUI: has gift but threshold not met, total_price >= threshold being
\* false
RemovalStarted(m, cd) ==
    HasGift(cd) /\ ~(~m.threshold.nan /\ cd.total_price >= m.threshold.v)

\* addGiftToCart on a cart without a complimentary line, with its security
\* check and a POST /cart/add that succeeds
ThresholdAdd ==
    /\ ~HasGift(cart)
    /\ IF AddAccepted(instances[1], cart)
       THEN /\ cart' = [cart EXCEPT !.items = Append(@, GiftLine(1))]
            /\ ev' = Did("thresholdAdd", "ok", "add", "success", "none", FALSE)
       ELSE /\ ev' = Did("thresholdAdd", "ok", "none", "error", "none", FALSE)
            /\ UNCHANGED cart
    /\ instances' = [instances EXCEPT ![1].cartData = cart']
    /\ UNCHANGED <<cartData, lastCartTotal, lastUpdateTime, selectedGift,
                   isProcessing, listening, display, loading, tasks, now,
                   failures, windowStart>>
    /\ UNCHANGED validatorVars
    /\ UNCHANGED protectionVars

\* updateUI on the snapshot the manager holds, with a POST /cart/change
\* of removeGift that succeeds
ThresholdUpdateUI ==
    /\ instances[1].cartData # Null
    /\ IF RemovalStarted(instances[1], instances[1].cartData)
       THEN /\ cart' = [cart EXCEPT
                           !.items = SelectSeq(@, LAMBDA l : ~IsFreeGift(l))]
            /\ ev' = Did("thresholdUpdateUI", "none", "change", "warning",
                         "remove", FALSE)
       ELSE /\ ev' = Did("thresholdUpdateUI", "none", "none", "none",
                         "render", FALSE)
            /\ UNCHANGED cart
    /\ instances' = [instances EXCEPT ![1].cartData = cart']
    /\ UNCHANGED <<cartData, lastCartTotal, lastUpdateTime, selectedGift,
                   isProcessing, listening, display, loading, tasks, now,
                   failures, windowStart>>
    /\ UNCHANGED validatorVars
    /\ UNCHANGED protectionVars

ThresholdInit ==
    /\ cart \in {[total_price |-> p, items |-> <<RegularLine>>] : p \in Totals}
    /\ cartData = Null
    /\ lastCartTotal = 0
    /\ lastUpdateTime = 0
    /\ selectedGift = 1
    /\ isProcessing = FALSE
    /\ listening = TRUE
    /\ display = "none"
    /\ loading = FALSE
    /\ tasks = EmptyBag
    /\ now = StartTime
    /\ failures = 0
    /\ windowStart = 0
    /\ ev = Idle
    /\ isValidating = FALSE
    /\ isRefreshing = FALSE
    /\ notificationShown = FALSE
    /\ lastKnownState = "null"
    /\ reload = 0
    /\ cartTotal = 0
    /\ hasSample = FALSE
    /\ rows = <<>>
    /\ cachedCart = Null
    /\ lastProtectionRun = 0
    /\ instances \in {<<[NewManager EXCEPT !.threshold = ParseInt(attr)]>> :
                        attr \in DataThresholds}

ThresholdNext ==
    \/ ThresholdAdd
    \/ ThresholdUpdateUI

ThresholdSpec == ThresholdInit /\ [][ThresholdNext]_vars

\* =============================================================== claims
\* invocations of addGiftToCart that have not completed
AddPcs == {"addFetch", "addPost", "addRefresh"}

AddsInProgress ==
    BagCardinality([t \in {u \in Pending : u.pc \in AddPcs} |-> CopiesIn(t, tasks)])

\* updateUI ran on a snapshot in the handler run that just ended
AfterUpdateUI == ev.ui \in {"render", "remove"}

\* the state the table of the UI state selector gives for a snapshot
TableState(cd) ==
    CASE HasGift(cd) /\ ThresholdMet(cd)    -> "success"
      [] ~HasGift(cd) /\ ThresholdMet(cd)   -> "selector"
      [] ~HasGift(cd) /\ ~ThresholdMet(cd)  -> "progress"
      [] OTHER                              -> "none"

\* C1: the cart, which starts without a complimentary line, never holds more
\* than one line with _is_free_gift = "true", whatever add clicks arrive
C1_AtMostOneGiftLine == Cardinality(GiftLines(cart.items)) <= 1

\* a reconciliation just completed without error: the handler run that ended
\* fetched the cart or removed a line, and its updateUI rendered a state
\* instead of starting a further removal
ReconciliationDone ==
    /\ ev.op \in {"init", "update", "addRefreshed", "removeDone"}
    /\ ev.ui = "render"
    /\ ev.fetched # "fail"

\* C2: right after a reconciliation (cart fetch, updateUI and the removals
\* it starts) completes without error, the snapshot in cartData has a
\* complimentary line only if its total reaches the threshold
C2_GiftOnlyIfThresholdMet ==
    ReconciliationDone =>
        ((\E i \in 1..Len(cartData.items) : IsFreeGift(cartData.items[i]))
            => cartData.total_price >= threshold)

\* C2 witness: a removal completed the reconciliation of a snapshot below
\* the threshold
C2_Witness ==
    /\ ReconciliationDone
    /\ ev.op = "removeDone"
    /\ cartData.total_price < threshold
    /\ ~HasGift(cartData)

\* C3 as stated: after updateUI on any snapshot exactly one of progress,
\* selector, success is displayed, and it is the one the table gives for
\* (hasComplimentaryLine, thresholdMet) where the table has a row
C3_EverySnapshotShowsOneState ==
    AfterUpdateUI =>
        /\ display \in DisplayStates
        /\ TableState(cartData) # "none" => display = TableState(cartData)

\* C3 amended: after updateUI on a snapshot that has no complimentary line
\* below the threshold, the displayed state is the one the table gives
C3_DisplayFromTable ==
    (AfterUpdateUI /\ ~(HasGift(cartData) /\ cartData.total_price < threshold))
        => (display \in DisplayStates /\ display = TableState(cartData))

\* C3 witness: updateUI rendered success for a snapshot with a complimentary
\* line and the threshold met
C3_Witness ==
    /\ ev.ui = "render"
    /\ HasGift(cartData) /\ ThresholdMet(cartData)
    /\ display = "success"

\* C4: when the snapshot addGiftToCart fetched is below the threshold or holds
\* a complimentary line, it issues no POST /cart/add and shows a notification
C4_AddRejectedLocally ==
    (/\ ev.op = "addChecked"
     /\ ev.fetched = "ok"
     /\ (cartData.total_price < threshold \/ HasGift(cartData)))
        => (ev.post # "add" /\ ev.note \in {"error", "warning"})

\* C4 witness: an add attempted while a complimentary line exists and the
\* threshold is met was rejected with a warning
C4_Witness ==
    /\ ev.op = "addChecked" /\ ev.fetched = "ok"
    /\ HasGift(cartData) /\ ThresholdMet(cartData)
    /\ ev.note = "warning" /\ ev.post = "none"

\* C5: when updateUI meets a complimentary line below the threshold it starts
\* removeGift and none of the three state containers is displayed
C5_TransientNotDisplayed == ev.ui = "remove" => display = "none"

\* C6: a POST /cart/add and a POST /cart/change of one manager are never in
\* flight at the same time
C6_AddRemoveExclusive ==
    ~(\E a, r \in Pending : a.pc = "addPost" /\ r.pc = "rmPost")

\* C7: an addGiftToCart that starts while an earlier one has not completed is
\* dropped: it issues no cart fetch
C7_SecondAddDropped ==
    (ev.op = "addGiftToCart" /\ ev.fetch) => AddsInProgress = 1

\* C8: for a complimentary line below the threshold exactly one POST
\* /cart/change is issued for its key, also while that call is in flight
C8_SingleRemovePerLine ==
    \A t \in Pending : t.pc = "rmPost" => CopiesIn(t, tasks) = 1

\* C9: if the cart fetch inside addGiftToCart fails, no POST /cart/add is
\* issued on the basis of the cached snapshot
C9_NoAddOnFailedFetch ==
    (ev.op = "addChecked" /\ ev.fetched = "fail") => ev.post # "add"

\* C10: of two calls of debouncedUpdate less than updateDebounceTime apart,
\* the first of which fetched, the second starts no fetch: the two produce
\* exactly one cart fetch
C10_OneFetchPerWindow ==
    [][(ev'.op = "debouncedUpdate" /\ windowStart # 0
            /\ now - windowStart < updateDebounceTime)
        => (~ev'.fetch /\ tasks' = tasks)]_vars

\* C10 witness: a trigger that arrived later than the one that fetched, but
\* inside its window, was dropped
C10_Witness ==
    /\ ev.op = "debouncedUpdate" /\ ~ev.fetch
    /\ now > windowStart
    /\ now - windowStart < updateDebounceTime

\* C11: while a reconciliation started by debouncedUpdate awaits its cart
\* fetch, a further debouncedUpdate starts no second fetch: right after a
\* call that fetched, that fetch is the only one of debouncedUpdate pending
C11_NoSecondFetch ==
    (ev.op = "debouncedUpdate" /\ ev.fetch)
        => CopiesIn(Sent("updFetch", 0), tasks) = 1

\* POST /cart/add requests awaiting their response
AddPosts(b) ==
    BagCardinality([t \in {u \in BagToSet(b) : u.pc = "addPost"}
                        |-> CopiesIn(t, b)])

\* the step of the scenario of C12, if the step just taken belongs to it
C12_Step ==
    /\ (/\ ev'.op \in {"init", "update"} /\ ev'.fetched = "ok"
        /\ ~HasGift(cartData') /\ cartData'.total_price >= threshold)
            => display' = "selector"
    /\ (/\ ev'.op = "addChecked" /\ ev'.fetched = "ok"
        /\ ~HasGift(cartData') /\ cartData'.total_price >= threshold
        /\ selectedGift # 0)
            => /\ ev'.post = "add"
               /\ AddPosts(tasks') = AddPosts(tasks) + 1
               /\ CopiesIn(Sent("addPost", selectedGift), tasks')
                    = CopiesIn(Sent("addPost", selectedGift), tasks) + 1
               /\ "_is_free_gift" \in DOMAIN GiftLine(selectedGift).properties
               /\ GiftLine(selectedGift).properties["_is_free_gift"] = "true"
    /\ (/\ ev'.op = "addRefreshed" /\ ev'.fetched = "ok"
        /\ HasGift(cartData') /\ cartData'.total_price >= threshold)
            => display' = "success"

\* C12: threshold 10000, no complimentary line: the check that follows a rise
\* of the total to 10500 displays selector; the add click with a selected
\* variant then issues exactly one POST /cart/add whose line is flagged
\* _is_free_gift = "true"; after its success the refresh displays success
C12_ScenarioAdd == [][C12_Step]_vars

\* C12 witness: the total rose from 8000 to 10500 and the add of the selected
\* variant ended with success displayed, no request having failed
C12_Witness ==
    /\ ev.op = "addRefreshed" /\ ev.fetched = "ok"
    /\ cart.total_price = 10500 /\ cartData = cart
    /\ Cardinality(GiftLines(cart.items)) = 1
    /\ display = "success"
    /\ failures = 0

\* C13: threshold 10000, a complimentary line in the cart: the check that
\* sees the total below the threshold sends POST /cart/change (quantity 0)
\* for the key of the complimentary line; once that call succeeded and left
\* no complimentary line, progress is displayed with the remaining amount
\* threshold - total_price (1000 for a total of 9000)
C13_ScenarioRemove ==
    /\ (/\ ev.op \in {"init", "update"} /\ ev.fetched = "ok"
        /\ HasGift(cartData) /\ cartData.total_price < threshold)
            => /\ ev.post = "change"
               /\ BagIn(Sent("rmPost", cartData.items[FindGift(cartData.items)].key),
                        tasks)
    /\ (/\ ev.op = "removeDone" /\ ev.note = "warning"
        /\ ~HasGift(cartData) /\ cartData.total_price < threshold)
            => /\ display = "progress"
               /\ ev.amount = threshold - cartData.total_price

\* C13 witness: the removal succeeded on a total of 9000 and progress shows
\* the remaining amount 1000
C13_Witness ==
    /\ ev.op = "removeDone" /\ ev.note = "warning"
    /\ cartData.total_price = 9000 /\ ~HasGift(cartData)
    /\ display = "progress"
    /\ ev.amount = 1000

\* C14: once a reconciliation trigger fired after the cart came to hold a
\* complimentary line below the threshold, the violation is corrected if the
\* cart API answers: the manager is not left with nothing pending, the
\* trigger dropped and the line still in the cart
C14_TriggerCorrects ==
    (/\ ev.op = "debouncedUpdate" /\ ~ev.fetch
     /\ tasks = EmptyBag
     /\ failures = 0)
        => ~(HasGift(cart) /\ cart.total_price < threshold)

\* C17: a reconciliation cycle of debouncedUpdate whose cart fetch failed
\* issues no POST
C17_FailedFetchNoOp ==
    (ev.op = "update" /\ ev.fetched = "fail") => ev.post = "none"

\* the step of C18, if the step just taken belongs to it
C18_Step ==
    /\ (ev'.op = "removeDone" /\ ev'.note = "error")
        => /\ cartData' = cartData
           /\ cart' = cart
           /\ ~loading'
    /\ (/\ ev'.op \in {"init", "update", "addRefreshed"}
        /\ HasGift(cartData') /\ cartData'.total_price < threshold)
        => /\ ev'.post = "change"
           /\ CopiesIn(Sent("rmPost", cartData'.items[FindGift(cartData'.items)].key),
                       tasks') >= 1
           /\ loading'

\* C18: when POST /cart/change of removeGift fails, the manager shows an error
\* notification, leaves cartData as it was and removes the loading marker;
\* every later reconciliation cycle that still sees the complimentary line
\* below the threshold issues the removal again
C18_RemoveFailureRetried == [][C18_Step]_vars

\* C18 witness: a removal just failed; the snapshot still holds the
\* complimentary line below the threshold and the loading marker is gone
C18_Witness ==
    /\ ev.op = "removeDone" /\ ev.note = "error"
    /\ HasGift(cartData) /\ cartData.total_price < threshold
    /\ ~loading

\* C16: removeGift called with a snapshot that has no complimentary line
\* issues no cart-API call and changes no state
C16_RemoveWithoutGiftNoOp ==
    [][(ev'.op = "removeGift" /\ ~HasGift(cartData))
        => /\ tasks' = tasks
           /\ ev'.post = "none"
           /\ UNCHANGED <<cart, cartData, lastCartTotal, lastUpdateTime,
                          selectedGift, isProcessing, listening, display,
                          loading, now, failures, windowStart>>]_vars

\* C16 witness: removeGift was called on a snapshot whose only line is
\* merchandise, and nothing is pending
C16_Witness ==
    /\ ev.op = "removeGift"
    /\ cartData.items = <<RegularLine>>
    /\ tasks = EmptyBag

\* C15: every tick of the manager's periodic timer whose fetched snapshot
\* holds a complimentary line below the threshold, no removal being in
\* flight, leads to updateUI and the removal, also when total_price is the
\* same as at the previous tick
C15_TickReconciles ==
    (/\ ev.op = "poll" /\ ev.fetched = "ok"
     /\ HasGift(cartData) /\ cartData.total_price < threshold
     /\ \A t \in Pending : t.pc # "rmPost")
        => (ev.ui = "remove" /\ ev.post = "change")

\* C19: after removeSample failed the validator is not left disabled: with
\* no request pending and no reload scheduled, a trigger that calls
\* checkCart is not dropped, it fetches the cart
C19_TriggerRunsCheck ==
    (ev.op = "checkCart" /\ tasks = EmptyBag /\ reload = 0) => ev.fetch

\* C20: validateThreshold reports the sample as removed and schedules the
\* reload only when POST /cart/change succeeded; on a non-OK response it
\* surfaces an error and schedules no reload
C20_RemovalReportedOnSuccess ==
    ev.op = "validateChanged"
        => /\ (ev.note = "warning" \/ ev.ui = "reload") => ev.fetched = "ok"
           /\ ev.fetched = "rejected" => ev.note = "error"

\* the step that resumes addGiftToCart with a failed POST /cart/add, if the
\* step just taken is one
C21_Step ==
    (ev'.op = "addPosted" /\ ev'.note = "error")
        => /\ \E t \in Pending :
                /\ t.pc = "addPost" /\ t.st \in AddFailures
                /\ tasks' = Without(t)
                /\ t.st = "rejected"
                    => ev'.reason = <<"Cannot add gift: ", ApiDescription>>
           /\ AddPosts(tasks') = AddPosts(tasks) - 1
           /\ ~isProcessing'
           /\ ~ev'.fetch /\ ev'.post = "none"

\* C21: when POST /cart/add of addGiftToCart is rejected, the run that
\* receives the rejection shows one error notification whose text carries
\* the description of the response, sends no further request (the handler
\* ends, so another POST /cart/add needs another click) and leaves
\* isProcessing false
C21_RejectedAddReported == [][C21_Step]_vars

C21_Witness ==
    /\ ev.op = "addPosted" /\ ev.note = "error"
    /\ ev.reason = <<"Cannot add gift: ", ApiDescription>>
    /\ ~isProcessing
    /\ AddPosts(tasks) = 0

\* C22: addGiftToCart invoked while no selection is held issues no cart-API
\* call and shows the shopper a notification saying why
C22_NoSelectionExplained ==
    (ev.op = "addGiftToCart" /\ selectedGift = 0)
        => (~ev.fetch /\ ev.post = "none" /\ ev.note # "none")

\* C23: the line of every POST /cart/add in flight carries the complimentary
\* flag, the original price of the selection, the threshold in effect and
\* the title of the selection
C23_AddCarriesProperties ==
    \A t \in Pending :
        t.pc = "addPost"
            => LET p == GiftLine(t.id).properties
               IN  /\ IsFreeGift(GiftLine(t.id))
                   /\ \E k \in DOMAIN p : p[k] = GiftPrice(t.id)
                   /\ \E k \in DOMAIN p : p[k] = ToString(threshold)
                   /\ \E k \in DOMAIN p : p[k] = GiftTitle(t.id)

\* what a step does about the manager's own cart-update events, if it
\* publishes or receives one
C24_Step ==
    /\ ev'.published = "free-gift-add"
        => /\ ev'.op = "addRefreshed"
           /\ \E t \in Pending : t.pc = "addRefresh" /\ t.st = "sent"
           /\ ev'.fetched = "ok" => cartData' = cart'
           /\ ev'.ui \in {"render", "remove"}
           /\ ev'.ui = "render" => display' = StateFor(cartData')
    /\ ev'.published = "free-gift-remove"
        => /\ ev'.op = "removeDone" /\ ev'.note = "warning"
           /\ cartData' = cart'
           /\ ev'.ui \in {"render", "remove"}
           /\ ev'.ui = "render" => display' = StateFor(cartData')
    /\ (ev'.op = "addPosted" \/ (ev'.op = "removeDone" /\ ev'.note = "error"))
        => ev'.published = "none"
    /\ \A source \in {"free-gift-add", "free-gift-remove"} :
        HandleCartUpdate(source)
            => /\ ~ev'.fetch /\ ev'.post = "none" /\ ev'.ui = "none"
               /\ UNCHANGED <<cart, cartData, lastCartTotal, lastUpdateTime,
                              display, loading, tasks>>

\* C24: the cart-update event tagged free-gift-add is published only by the
\* run of addGiftToCart that has awaited the refresh of the snapshot and
\* called updateUI, the one tagged free-gift-remove only by the run of
\* removeGift that has replaced the snapshot by the response and called
\* updateUI; handleCartUpdate on an event with either tag starts no cart
\* fetch and no reconciliation
C24_OwnEventsSkipped == [][C24_Step]_vars

C24_Witness ==
    /\ ev.op = "addRefreshed" /\ ev.published = "free-gift-add"
    /\ ev.fetched = "ok" /\ ev.ui = "render"
    /\ display = "success"
    /\ cartData = cart

\* C25: after a run of addGiftToCart that added the line, no selection is
\* held
C25_SelectionClearedAfterAdd ==
    (ev.op = "addRefreshed") => selectedGift = 0

\* the snapshot holds a line flagged only with the legacy key and no line
\* flagged with the current one
LegacyFlaggedOnly(cd) ==
    /\ \E i \in 1..Len(cd.items) : IsFreeSample(cd.items[i])
    /\ ~HasGift(cd)

\* C26: a line flagged only with _is_free_sample = "true" counts as the
\* complimentary line: updateUI on a snapshot holding one shows the success
\* state when the threshold is met and removes the line when it is not
C26_LegacyFlagCounts ==
    (ev.op = "updateUI" /\ LegacyFlaggedOnly(cartData))
        => IF ThresholdMet(cartData)
           THEN display = "success"
           ELSE ev.post = "change"

\* the line of the cart that the row r renders
LineOf(r) == CHOOSE l \in {cart.items[k] : k \in 1..Len(cart.items)} : l.key = r.line

\* a run of protectGiftQuantities has just completed its cart fetch without
\* error, and the rows render the cart it fetched
ProtectionRan ==
    /\ ev.op = "protected" /\ ev.fetched = "ok"
    /\ \A i \in 1..Len(rows) :
        \E k \in 1..Len(cart.items) : cart.items[k].key = rows[i].line

\* the rows are listed in the order of the cart items and every input
\* carries the variant id of its line
InCartOrder ==
    /\ Len(rows) = Len(cart.items)
    /\ \A i \in 1..Len(rows) :
        /\ rows[i].line = cart.items[i].key
        /\ rows[i].variant = cart.items[i].variant_id

\* C27: after a run of protectGiftQuantities that completed without error,
\* the quantity control of every line that is not complimentary is enabled
\* and shows the quantity of its line, also when such a line has the variant
\* of the complimentary line (stated for rows in cart order that carry
\* their variant ids)
C27_OtherLinesLeftAlone ==
    (ProtectionRan /\ InCartOrder)
        => \A i \in 1..Len(rows) :
            (~IsFreeGift(LineOf(rows[i])) /\ ~IsFreeSample(LineOf(rows[i])))
                => /\ ~rows[i].disabled
                   /\ rows[i].value = LineOf(rows[i]).quantity

\* the rows are in cart order with their variant ids, and no two lines
\* share a variant
PlainlyRendered ==
    /\ InCartOrder
    /\ \A i, j \in 1..Len(rows) :
        i # j => rows[i].variant # rows[j].variant

\* C28: after a run of protectGiftQuantities that performed its cart fetch
\* without error, the quantity control of every complimentary line is
\* disabled (stated for rows in cart order that carry distinct variant ids)
C28_GiftLinesDisabled ==
    (ProtectionRan /\ PlainlyRendered)
        => \A i \in 1..Len(rows) :
            IsFreeGift(LineOf(rows[i])) => rows[i].disabled

\* C29: no POST /cart/add.js of addSampleToCart is in flight for a call made
\* while the cart's total_price was below the threshold
C29_NoSampleBelowThreshold ==
    \A t \in Pending : t.pc = "sampleAdd" => t.total >= threshold

\* C30: an addSampleToCart called while the cart held a sample line ends
\* at the call: none of its requests that change the cart (POST
\* /cart/change.js, POST /cart/add.js) is ever in flight
C30_SecondSampleRejected ==
    \A t \in Pending :
        t.pc \in {"sampleChange", "sampleAdd"} => ~t.sample

\* updateUI called on a snapshot that holds no complimentary line below the
\* threshold, if the step just taken is such a call
C31_Step ==
    (ev'.op = "updateUI" /\ ~(HasGift(cartData) /\ ~ThresholdMet(cartData)))
        => /\ display' = TableState(cartData)
           /\ display' \in DisplayStates
           /\ tasks' = tasks
           /\ ev'.post = "none" /\ ~ev'.fetch
           /\ UNCHANGED <<cart, cartData, lastCartTotal, loading>>

\* C31: updateUI on a snapshot that does not violate the invariant shows the
\* one container the snapshot alone determines, whatever was shown before,
\* leaves the snapshot as it was and issues no cart-API call; a second call
\* on the same snapshot therefore shows the same container again
C31_UpdateUIIdempotent == [][C31_Step]_vars

C31_Witness ==
    /\ ev.op = "updateUI" /\ ev.ui = "render"
    /\ HasGift(cartData) /\ ThresholdMet(cartData)
    /\ display = "success"
    /\ tasks = EmptyBag

\* the requests a validation awaits: GET /cart.js and POST /cart/change.js of
\* checkCart, and those of validateThreshold
ValidationPcs == {"checkFetch", "samplePost", "validateFetch", "validatePost"}

\* validations of the instance that are awaiting a response
Validations ==
    BagCardinality([t \in {u \in BagToSet(tasks) : u.pc \in ValidationPcs}
                        |-> CopiesIn(t, tasks)])

\* C32: at most one validation of the instance is in flight, and
\* isValidating is set exactly while one is: it is false again after every
\* exit of checkCart and of validateThreshold
C32_SingleValidation ==
    /\ Validations <= 1
    /\ isValidating <=> Validations = 1

\* C32 witness: a call made while a validation was in flight was dropped
C32_Witness ==
    /\ ev.op \in {"checkCart", "validateThreshold"}
    /\ ~ev.fetch
    /\ isValidating
    /\ Validations = 1

\* C33: the POST /cart/change of the legacy manager's auto-remove passes
\* the manager's fetch wrapper without scheduling a further fetchCart +
\* updateUI: a removal that failed leaves nothing scheduled that would
\* issue it again
C33_OwnRequestsSkipped ==
    (ev.op = "removeDone" /\ ev.note = "error")
        => (~ev.fetch /\ \A t \in Pending : t.pc # "legacyFetch")

\* C34: every window.fetch wrapper is transparent: whatever the type of the
\* URL and of the body, the caller receives the response of the original
\* fetch, or its rejection when the original fetch rejected
C34_WrappersTransparent ==
    ev.op = "wrappedFetch"
        => ev.note = (IF ev.fetched = "error" THEN "rejection" ELSE "response")

\* C35: a cart event is reconciled by one instance only, the one that was
\* not destroyed: no destroyed instance starts a cart fetch on it
C35_OnlyLiveInstanceReconciles ==
    ev.op = "cartEvent"
        => /\ Cardinality(ev.inst) <= 1
           /\ \A i \in ev.inst : ~instances[i].destroyed

\* C36: once checkCart has set isRefreshing the validator is quiet until the
\* page reloads: no handler starts a cart fetch while a reload is scheduled,
\* and no second reload is scheduled
C36_QuietUntilReload ==
    /\ reload <= 1
    /\ (ev.op \in {"checkCart", "visible"} /\ ev.fetch) => reload = 0

\* C37: addSampleToCart sends POST /cart/add only after the removal of the
\* existing sample line succeeded: when it goes on from the answer to its
\* POST /cart/change to the add, no sample line is left in the cart
C37_AddOnlyAfterRemoval ==
    (ev.op = "sampleChanged" /\ ev.post = "add") => ~CartHasSample(cart)

\* C38: the variant addGiftToCart posts is the selection held at the click:
\* once its checks have passed, POST /cart/add for that variant is sent,
\* whatever was selected or deselected during the cart fetch
C38_PostsClickedSelection ==
    (ev.op = "addChecked" /\ ev.clicked # 0)
        => /\ ev.post = "add"
           /\ Sent("addPost", ev.clicked) \in Pending

\* C39: the add check and the removal check agree for every total and every
\* data-threshold value: updateUI never starts removeGift for the line that
\* addGiftToCart has just been allowed to add on the same total
C39_ChecksAgree ==
    (ev.op = "thresholdUpdateUI" /\ AddAccepted(instances[1], cart))
        => ev.ui # "remove"

====
